---- MODULE Spec2Model ----
(***************************************************************************)
(* b9schema reflector: the type-derivation engine (Reflector.DeriveSchema  *)
(* and the reflectType*Impl functions), the schema tree (TypeElement), the *)
(* ancestor map used for cycle detection, the TypeRefs registry, and the   *)
(* dialect rendering framework (RenderSchema / RenderType with the Simple, *)
(* JSON and OpenAPI renderers).                                            *)
(*                                                                         *)
(* Go values are described by the table Val: one record per reflect.Value  *)
(* the engine can meet, with the answers reflect gives for it (Kind,       *)
(* Type().Name(), IsNil, Elem, Len, Index, fields, map keys ...).          *)
(* The recursion of reflectTypeImpl is run step by step on an explicit     *)
(* call stack; the tree lives in a heap of TypeElement records addressed   *)
(* by allocation index (the Go pointers), each carrying its own ID field.  *)
(***************************************************************************)
EXTENDS Integers, Sequences, FiniteSets

VARIABLES
    heap,     \* Seq of TypeElement records; a *TypeElement is an index, 0 is nil
    lastID,   \* idgen's process-wide counter
    ancs,     \* Seq of AncestorTypeRef maps; an AncestorTypeRef is an index
    schema,   \* r.Schema: [Root, TypeRefs] (addresses), both 0 when r.Schema == nil
    pc,       \* "idle" | "run" | "done" | "panic" | "overflow"
    stack,    \* call stack of the running DeriveSchema, top is the last frame
    input,    \* name (in Val) of the value handed to the running/last DeriveSchema
    fresh,    \* TRUE while the Schema holds the result of at most one DeriveSchema
    rend,     \* result of the last ProcessResult on the current Schema
    prev      \* history: what the previous derivation rendered to (SpecTwice)

vars == <<heap, lastID, ancs, schema, pc, stack, input, fresh, rend, prev>>

-----------------------------------------------------------------------------
(* Bounds of the model.                                                    *)

\* Goroutine stack budget, in frames of the model's call stack.
MaxStack == 18
\* A Reflector is reused for a further DeriveSchema (without Reset) only
\* while its Schema holds at most this many nodes.
MaxReuseHeap == 3
\* The tree operations are called on trees of at most this many elements.
MaxTreeHeap == 4

-----------------------------------------------------------------------------
(* Strings: byte order, upper-casing, Capitalize.                          *)

\* The bytes used in names, in ascending byte order.
Alphabet == "ABCDEFGHIJKLMNOPQRSTUVWXYZ_abcdefghijklmnopqrstuvwxyz"
Uppers == "ABCDEFGHIJKLMNOPQRSTUVWXYZ"
Lowers == "abcdefghijklmnopqrstuvwxyz"

RECURSIVE IndexIn(_, _, _)
IndexIn(c, s, i) ==
    IF i > Len(s) THEN 0
    ELSE IF SubSeq(s, i, i) = c THEN i
    ELSE IndexIn(c, s, i + 1)

CharCode(c) == IndexIn(c, Alphabet, 1)

\* Go's < on strings: lexicographic by bytes.
RECURSIVE StrLess(_, _)
StrLess(a, b) ==
    IF Len(b) = 0 THEN FALSE
    ELSE IF Len(a) = 0 THEN TRUE
    ELSE IF CharCode(Head(a)) # CharCode(Head(b))
         THEN CharCode(Head(a)) < CharCode(Head(b))
    ELSE StrLess(Tail(a), Tail(b))

UpperChar(c) ==
    LET i == IndexIn(c, Lowers, 1)
    IN IF i = 0 THEN c ELSE SubSeq(Uppers, i, i)

RECURSIVE ToUpper(_)
ToUpper(s) == IF Len(s) = 0 THEN "" ELSE UpperChar(Head(s)) \o ToUpper(Tail(s))

\* util.Capitalize
Capitalize(s) ==
    IF Len(s) < 2 THEN ToUpper(s)
    ELSE ToUpper(SubSeq(s, 1, 1)) \o SubSeq(s, 2, Len(s))

RECURSIVE Contains(_, _)
\* strings.Contains(s, c) for a one-byte c
Contains(s, c) ==
    IF Len(s) = 0 THEN FALSE
    ELSE IF Head(s) = c THEN TRUE ELSE Contains(Tail(s), c)

RECURSIVE Repeat(_, _)
\* strings.Repeat
Repeat(s, n) == IF n <= 0 THEN "" ELSE s \o Repeat(s, n - 1)

RECURSIVE Join(_, _)
\* strings.Join
Join(ss, sep) ==
    IF Len(ss) = 0 THEN ""
    ELSE IF Len(ss) = 1 THEN ss[1]
    ELSE ss[1] \o sep \o Join(Tail(ss), sep)

RECURSIVE InsertString(_, _)
InsertString(x, s) ==
    IF Len(s) = 0 THEN <<x>>
    ELSE IF StrLess(x, Head(s)) THEN <<x>> \o s
    ELSE <<Head(s)>> \o InsertString(x, Tail(s))

RECURSIVE SortStrings(_)
\* sort.Strings
SortStrings(s) ==
    IF Len(s) = 0 THEN <<>> ELSE InsertString(Head(s), SortStrings(Tail(s)))

\* The sequences that list the elements of a finite set once each.
Perms(S) ==
    {p \in [1..Cardinality(S) -> S] : \A x \in S : \E i \in DOMAIN p : p[i] = x}

-----------------------------------------------------------------------------
(* Error taxonomy.                                                         *)

InvalidKindErr == "kind not supported"
RootKindErr == "root type must be a struct"
CyclicalReferenceErr == "cyclical reference"
NilInterfaceErr == "interface element is nil"
EmptyStructErr == "empty struct not supported"
EmptyMapErr == "empty map not supported"
NoExportedFieldsErr == "struct has no exported fields"
MapKeyTypeErr == "map key type must be string"
SliceMultiTypeErr == "slice contains multiple kinds"
DuplicateMapKeyErr == "duplicate map key"

NATIVE_DIALECT == "golang"

-----------------------------------------------------------------------------
(* Generic type taxonomy.                                                  *)

GT(slug, pathDefault, cat) == [slug |-> slug, pathDefault |-> pathDefault, cat |-> cat]

GInvalid == GT("invalid", "", "invalid")
GBoolean == GT("boolean", "", "basic")
GInteger == GT("integer", "", "basic")
GFloat == GT("float", "", "basic")
GString == GT("string", "", "basic")
GList == GT("list", "[]", "compound")
GStruct == GT("struct", "{}", "compound")
GDateTime == GT("datetime", "", "known")
GInterface == GT("interface", "{?}", "reference")
GPointer == GT("pointer", "*", "reference")
GRoot == GT("root", "$", "internal")

\* The types mapTypes registers in init(), in registration order.
MappedTypes ==
    <<GInvalid, GBoolean, GInteger, GFloat, GString, GList, GStruct,
      GDateTime, GInterface, GPointer>>

\* genericTypeLookup: reflect.Kind string (or "PkgPath.Name") -> GenericType
KindLookup(k) ==
    CASE k \in {"invalid", "complex64", "complex128", "chan", "func", "unsafe.Pointer"}
               -> GInvalid
      [] k = "bool" -> GBoolean
      [] k \in {"int", "int8", "int16", "int32", "int64", "uint", "uint8", "uint16",
                "uint32", "uint64", "uintptr"} -> GInteger
      [] k \in {"float32", "float64"} -> GFloat
      [] k = "string" -> GString
      [] k \in {"array", "slice"} -> GList
      [] k \in {"map", "struct"} -> GStruct
      [] k = "time.Time" -> GDateTime
      [] k = "interface" -> GInterface
      [] k = "ptr" -> GPointer
      [] OTHER -> [slug |-> "", pathDefault |-> "", cat |-> ""]

IsMapped(g) == g.slug # ""

\* generictype.GenericTypeOf
GenericTypeOf(v) ==
    LET t == KindLookup(v.kind)
    IN IF IsMapped(t)
       THEN IF t = GInvalid THEN t
            ELSE IF v.pkg # "" /\ IsMapped(KindLookup(v.pkg \o "." \o v.tname))
                 THEN KindLookup(v.pkg \o "." \o v.tname)
            ELSE t
       ELSE GInvalid

\* GenericType.PathDefault
PathDefault(g) == IF g.pathDefault # "" THEN g.pathDefault ELSE g.slug

\* generictype.PathDefaultOfType: pathDefaultLookup holds the mapped types only
PathDefaultOfType(typeString) ==
    LET hits == {i \in DOMAIN MappedTypes : MappedTypes[i].slug = typeString}
    IN IF hits # {}
       THEN PathDefault(MappedTypes[CHOOSE i \in hits : TRUE])
       ELSE PathDefault(GInvalid)

-----------------------------------------------------------------------------
(* Go values: what reflect answers for each value the engine can meet.     *)
(*   kind     v.Kind().String()                                            *)
(*   tname    v.Type().Name()      pkg   v.Type().PkgPath()                *)
(*   isNil    v.IsNil() (pointer, slice, map) / v.IsZero() (interface)     *)
(*   elem     v.Elem() of a non-nil pointer or interface                   *)
(*   zero     the zero value of the element type: reflect.New(T).Elem()    *)
(*            for a pointer or array, MakeSlice(T,1,1).Index(0) for a slice*)
(*   elems    v.Index(i), i < v.Len()                                      *)
(*   fields   v.Type().Field(i) / v.Field(i), in declaration order         *)
(*   keyKind  v.Type().Key().Kind(); keyNamed: the key type is a defined   *)
(*            type, not the predeclared string                             *)
(*   entries  the map's key/value pairs (v.MapKeys(), v.MapIndex(k))       *)

V(kind, tname, pkg) ==
    [kind |-> kind, tname |-> tname, pkg |-> pkg, isNil |-> FALSE, elem |-> "",
     zero |-> "", elems |-> <<>>, fields |-> <<>>, keyKind |-> "",
     keyNamed |-> FALSE, entries |-> {}]

\* a struct field: name, PkgPath ("" when exported), the parsed json tag, value
NoTag == [set |-> FALSE, ignore |-> FALSE, alias |-> ""]
JsonTag(ignore, alias) == [set |-> TRUE, ignore |-> ignore, alias |-> alias]
Fld(name, val) == [name |-> name, pkgPath |-> "", tag |-> NoTag, val |-> val]
FldTag(name, val, tag) == [name |-> name, pkgPath |-> "", tag |-> tag, val |-> val]
FldPriv(name, val) == [name |-> name, pkgPath |-> "main", tag |-> NoTag, val |-> val]
KV(key, val) == [key |-> key, val |-> val]

StructV(tname, fields) ==
    [V("struct", tname, IF tname = "" THEN "" ELSE "main") EXCEPT !.fields = fields]
PtrTo(target) == [V("ptr", "", "") EXCEPT !.elem = target, !.zero = target]
NilPtr(zero) == [V("ptr", "", "") EXCEPT !.isNil = TRUE, !.zero = zero]
IfaceOf(tname, target) ==
    [V("interface", tname, IF tname = "" THEN "" ELSE "main") EXCEPT !.elem = target]
NilIface(tname) ==
    [V("interface", tname, IF tname = "" THEN "" ELSE "main") EXCEPT !.isNil = TRUE]
SliceV(elems, zero) ==
    [V("slice", "", "") EXCEPT !.elems = elems, !.zero = zero, !.isNil = (elems = <<>>)]
MapV(keyKind, keyNamed, entries) ==
    [V("map", "", "") EXCEPT !.keyKind = keyKind, !.keyNamed = keyNamed,
                             !.entries = entries]

Val ==
    [ \* reflect.ValueOf(nil)
      nilv |-> V("invalid", "", ""),
      str |-> V("string", "string", ""),
      i64 |-> V("int64", "int64", ""),
      bool |-> V("bool", "bool", ""),
      chanv |-> V("chan", "", ""),
      \* type SimpleInt int64
      sint |-> V("int64", "SimpleInt", "main"),
      \* time.Time
      timev |-> V("struct", "Time", "time"),
      \* type Basic struct { B string; A int64; C bool }
      basic |-> StructV("Basic", <<Fld("B", "str"), Fld("A", "i64"), Fld("C", "bool")>>),
      \* struct { Y Basic; X Basic; T time.Time; N SimpleInt }
      two |-> StructV("", <<Fld("Y", "basic"), Fld("X", "basic"), Fld("T", "timev"),
                            Fld("N", "sint")>>),
      \* type Empty struct{}
      empt |-> StructV("Empty", <<>>),
      \* type Private struct { x string }
      priv |-> StructV("Private", <<FldPriv("x", "str")>>),
      \* type A struct { AName string `json:"aName"`; AChild *B }
      \* type B struct { BChild *C };  type C struct { CChild *A }
      a0 |-> StructV("A", <<FldTag("AName", "str", JsonTag(FALSE, "aName")),
                            Fld("AChild", "pB")>>),
      b0 |-> StructV("B", <<Fld("BChild", "pC")>>),
      c0 |-> StructV("C", <<Fld("CChild", "pA")>>),
      pA |-> NilPtr("a0"),
      pB |-> NilPtr("b0"),
      pC |-> NilPtr("c0"),
      \* type CycleTest struct { Level int64 `json:"-"`; CycleA A `json:"cycleA"`;
      \*                         CycleB *B; CycleC struct { C C } }
      ct |-> StructV("CycleTest",
                     <<FldTag("Level", "i64", JsonTag(TRUE, "")),
                       FldTag("CycleA", "a0", JsonTag(FALSE, "cycleA")),
                       Fld("CycleB", "pB"), Fld("CycleC", "cc")>>),
      cc |-> StructV("", <<Fld("C", "c0")>>),
      pct |-> PtrTo("ct"),
      \* &Basic{}, and a pointer to it
      pbasic |-> PtrTo("basic"),
      ppbasic |-> PtrTo("pbasic"),
      \* type Refs struct { I interface{}; P *Basic; Q interface{} }
      \*   Refs{I: nil, P: nil, Q: &Basic{}}
      refs |-> StructV("Refs", <<Fld("I", "inil"), Fld("P", "pbnil"), Fld("Q", "ipb")>>),
      inil |-> NilIface(""),
      pbnil |-> NilPtr("basic"),
      ipb |-> IfaceOf("", "pbasic"),
      \* type P *P;  P(nil)
      selfp |-> [V("ptr", "P", "main") EXCEPT !.isNil = TRUE, !.zero = "selfp"],
      \* type BadType interface{};  type T struct { X BadType };
      \* type U struct { Y BadType };  T{X: U{Y: nil}}
      tt |-> StructV("T", <<Fld("X", "bu")>>),
      bu |-> IfaceOf("BadType", "uu"),
      uu |-> StructV("U", <<Fld("Y", "bnil")>>),
      bnil |-> NilIface("BadType"),
      \* struct { S []string; L []int64; M []interface{} }
      \*   {S: nil, L: {1, 2}, M: {1, "a", true}}
      lists |-> StructV("", <<Fld("S", "snil"), Fld("L", "ints"), Fld("M", "mixed")>>),
      snil |-> SliceV(<<>>, "str"),
      ints |-> SliceV(<<"i64", "i64">>, "i64"),
      mixed |-> SliceV(<<"ii64", "istr", "ibool">>, "inil"),
      ibool |-> IfaceOf("", "bool"),
      ii64 |-> IfaceOf("", "i64"),
      istr |-> IfaceOf("", "str"),
      \* struct { E []interface{}; Z [0]string }  {E: {Basic{}, Other{}}}
      \* type Other struct { Z string }
      elist |-> StructV("", <<Fld("E", "ifs"), Fld("Z", "arr0")>>),
      ifs |-> SliceV(<<"ibasic", "iother">>, "inil"),
      ibasic |-> IfaceOf("", "basic"),
      iother |-> IfaceOf("", "other"),
      other |-> StructV("Other", <<Fld("Z", "str")>>),
      arr0 |-> [V("array", "", "") EXCEPT !.zero = "str"],
      \* map[string]int64{"b": 1, "a": 2, "C": 3}
      m3 |-> MapV("string", FALSE, {KV("b", "i64"), KV("a", "i64"), KV("C", "i64")}),
      \* map[string]interface{}{"a": "x", "A": Basic{}}
      mdup |-> MapV("string", FALSE, {KV("a", "istr"), KV("A", "ibasic")}),
      \* map[int64]string{1: "x"}
      mint |-> MapV("int64", FALSE, {KV("k", "str")}),
      \* map[string]string{}
      mempty |-> MapV("string", FALSE, {}),
      \* type Key string;  map[Key]int64{"k": 1}
      mkey |-> MapV("string", TRUE, {KV("k", "i64")}),
      \* m := map[string]interface{}{};  m["self"] = m
      mself |-> MapV("string", FALSE, {KV("self", "iself")}),
      iself |-> IfaceOf("", "mself"),
      \* type D struct { I interface{} };  struct { A D; B D }{A: D{1}, B: D{"s"}}
      droot |-> StructV("", <<Fld("A", "d1"), Fld("B", "d2")>>),
      d1 |-> StructV("D", <<Fld("I", "ii64")>>),
      d2 |-> StructV("D", <<Fld("I", "istr")>>),
      \* type J struct { NoTag string; ExcludeTag Basic `json:"-"`;
      \*                 RenameOne string `json:"renameOne"` }
      jt |-> StructV("J", <<Fld("NoTag", "str"),
                            FldTag("ExcludeTag", "basic", JsonTag(TRUE, "")),
                            FldTag("RenameOne", "str", JsonTag(FALSE, "renameOne"))>>),
      \* s := "x"; &s.  var i interface{} = "x"; &i
      pstr |-> PtrTo("str"),
      pistr |-> PtrTo("istr"),
      \* type PI *int64;  PI(&n)
      pint |-> [V("ptr", "PI", "main") EXCEPT !.elem = "i64", !.zero = "i64"],
      \* struct { E []int64; I []interface{}; Z [0]string; N []string }
      \*   {E: []int64{}, I: []interface{}{}, N: nil}
      empties |-> StructV("", <<Fld("E", "sempty"), Fld("I", "iempty"),
                                Fld("Z", "arr0"), Fld("N", "snil")>>),
      sempty |-> [SliceV(<<>>, "i64") EXCEPT !.isNil = FALSE],
      iempty |-> [SliceV(<<>>, "inil") EXCEPT !.isNil = FALSE],
      \* struct { A Empty; B Private; C, E map[int64]string; D map[string]string }
      \*   {C: map[int64]string{}, D: map[string]string{}, E: map[int64]string{1: "x"}}
      shapes |-> StructV("", <<Fld("A", "empt"), Fld("B", "priv"), Fld("C", "mintempty"),
                               Fld("D", "mempty"), Fld("E", "mint")>>),
      mintempty |-> MapV("int64", FALSE, {}),
      \* map[string]interface{}{"A": 1, "a": nil}
      mdupnil |-> MapV("string", FALSE, {KV("A", "ii64"), KV("a", "inil")}),
      \* map[string][]int64{"A": {1, 1}, "a": {1, 1}}
      mduplist |-> MapV("string", FALSE, {KV("A", "ints"), KV("a", "ints")}),
      \* map[string]interface{}{"A": 1, "a": Basic{}, "B": 1, "b": &Basic{}}
      mdupkinds |-> MapV("string", FALSE, {KV("A", "ii64"), KV("a", "ibasic"),
                                           KV("B", "ii64"), KV("b", "ipbasic")}),
      ipbasic |-> IfaceOf("", "pbasic"),
      \* map[string]*Basic{"A": &Basic{}, "a": &Basic{}}
      mdupptr |-> MapV("string", FALSE, {KV("A", "pbasic"), KV("a", "pbasic")}),
      \* type InvalidTypes struct { Chan chan int; Complex128 complex128;
      \*   Func func(); UnsafePointer unsafe.Pointer }
      invalids |-> StructV("InvalidTypes",
                           <<Fld("Chan", "chanv"), Fld("Complex128", "cplx"),
                             Fld("Func", "funcv"), Fld("UnsafePointer", "unsafev")>>),
      cplx |-> V("complex128", "complex128", ""),
      funcv |-> V("func", "", ""),
      unsafev |-> V("unsafe.Pointer", "Pointer", "unsafe"),
      \* type Ch chan int;  Ch(nil)
      nch |-> V("chan", "Ch", "main")
    ]

\* The values handed to DeriveSchema.
Inputs ==
    {"nilv", "str", "chanv", "sint", "timev", "basic", "two", "empt", "priv",
     "pct", "pbasic", "ppbasic", "refs", "selfp", "tt", "lists", "elist",
     "m3", "mdup", "mint", "mempty", "mkey", "mself", "droot", "jt",
     "ints", "pstr", "pistr", "pint", "empties", "shapes",
     "mintempty", "mdupnil", "mduplist", "mdupkinds", "mdupptr",
     "invalids", "nch"}

-----------------------------------------------------------------------------
(* Small maps with string keys (Go map[string]int): absent keys read as 0. *)

EmptyMap == [k \in {} |-> 0]
MGet(m, k) == IF k \in DOMAIN m THEN m[k] ELSE 0
MInc(m, k) == [x \in (DOMAIN m) \cup {k} |-> IF x = k THEN MGet(m, k) + 1 ELSE m[x]]

\* AncestorTypeRef is a Go map, a reference: the maps live in the store
\* (S.ancs) and a variable of the type is an address. aret is the address
\* the last allocation returned.
NewAncestorTypeRef(S) ==
    [S EXCEPT !.ancs = Append(S.ancs, EmptyMap), !.aret = Len(S.ancs) + 1]

\* Faulty variant of Copy, the map itself handed on: what C2 is sensitive to
AncestorCopyShared(S, a) == [S EXCEPT !.aret = a]

\* AncestorTypeRef.Copy: a new map with the same entries
AncestorCopy(S, a) ==
    [S EXCEPT !.ancs = Append(S.ancs, [k \in DOMAIN S.ancs[a] |-> S.ancs[a][k]]),
              !.aret = Len(S.ancs) + 1]

\* AncestorTypeRef.Contains
AncestorContains(S, a, key) == MGet(S.ancs[a], key) > 0

\* AncestorTypeRef.Add: counts key in the map itself; "" is not added
AncestorAdd(S, a, key) ==
    IF key = "" THEN S ELSE [S EXCEPT !.ancs[a] = MInc(S.ancs[a], key)]

-----------------------------------------------------------------------------
(* The schema tree. Operators take and return the store                    *)
(*   S = [heap, lastID, ancs, ret, aret]                                   *)
(* (ret: the address the last element allocation returned).                *)

\* threeflag
False == "false"
True == "true"

\* types.NewNativeType (Options are not modelled: no renderer reads them)
NewNativeType(dialect) ==
    [Dialect |-> dialect, Name |-> "", Type |-> "", TypeRef |-> "",
     Include |-> True, Error |-> ""]

\* nextID
NextID(S) == S.lastID + 1

\* types.NewTypeElement
NewTypeElement(S, name) ==
    LET t == [ID |-> NextID(S), Name |-> name, Nullable |-> FALSE,
              TypeCategory |-> "", Type |-> "", TypeRef |-> "",
              NativeDialect |-> NATIVE_DIALECT,
              Native |-> [d \in {NATIVE_DIALECT} |-> NewNativeType(d)],
              Error |-> "", Parent |-> 0, Children |-> <<>>]
    IN [S EXCEPT !.heap = Append(S.heap, t), !.lastID = NextID(S),
                 !.ret = Len(S.heap) + 1]

\* Faulty variant of NewRootElement, the element not typed as a root: what
\* C11 is sensitive to
NewRootElementUntyped(S, name) == NewTypeElement(S, name)

\* types.NewRootElement
NewRootElement(S, name) ==
    LET S1 == NewTypeElement(S, name)
    IN [S1 EXCEPT !.heap[S1.ret].Type = GRoot.slug,
                  !.heap[S1.ret].TypeCategory = GRoot.cat]

\* Faulty variant of RemoveChild, nothing detached: what C13 is sensitive to
RemoveChildNone(h, t, c) == h

\* TypeElement.RemoveChild: drops every child whose ID equals childElem's ID and,
\* if there was one, clears childElem.Parent
RemoveChild(h, t, c) ==
    LET keep == SelectSeq(h[t].Children, LAMBDA x : h[x].ID # h[c].ID)
        hit == \E i \in DOMAIN h[t].Children : h[h[t].Children[i]].ID = h[c].ID
        h1 == [h EXCEPT ![t].Children = keep]
    IN IF hit THEN [h1 EXCEPT ![c].Parent = 0] ELSE h1

\* Faulty variant of AddChild, the element left in the Children of its old
\* parent: what C24 is sensitive to
AddChildNoDetach(h, t, c) ==
    IF c = 0 THEN h
    ELSE [h EXCEPT ![c].Parent = t, ![t].Children = Append(h[t].Children, c)]

\* TypeElement.AddChild
AddChild(h, t, c) ==
    IF c = 0 THEN h
    ELSE LET h1 == IF h[c].Parent # 0 THEN RemoveChild(h, h[c].Parent, c) ELSE h
         IN [h1 EXCEPT ![c].Parent = t, ![t].Children = Append(h1[t].Children, c)]

\* TypeElement.NewChild
NewChild(S, t, name) ==
    LET S1 == NewTypeElement(S, name)
    IN [S1 EXCEPT !.heap = AddChild(S1.heap, t, S1.ret)]

\* Faulty variant of RemoveAllChildren that removes nothing: what C21 is
\* sensitive to
RemoveAllChildrenNone(h, t) == h

\* TypeElement.RemoveAllChildren
RemoveAllChildren(h, t) ==
    [a \in DOMAIN h |->
        LET n == IF \E i \in DOMAIN h[t].Children : h[t].Children[i] = a
                 THEN [h[a] EXCEPT !.Parent = 0]
                 ELSE h[a]
        IN IF a = t THEN [n EXCEPT !.Children = <<>>] ELSE n]

\* TypeElement.NativeDefault
NativeDefault(n) == n.Native[n.NativeDialect]

\* TypeElement.ChildMap: name -> child; a later child replaces an earlier one
\* of the same name
ChildMap(h, t) ==
    LET cs == h[t].Children
        names == {h[cs[i]].Name : i \in DOMAIN cs}
        last(nm) == CHOOSE i \in DOMAIN cs :
                        /\ h[cs[i]].Name = nm
                        /\ \A j \in DOMAIN cs : h[cs[j]].Name = nm => j <= i
    IN [nm \in names |-> cs[last(nm)]]

RECURSIVE KeysOf(_)
\* the keys of a Go map as a range over it hands them out (one of the orders;
\* every use sorts the result)
KeysOf(S) ==
    IF S = {} THEN <<>>
    ELSE LET x == CHOOSE y \in S : TRUE IN <<x>> \o KeysOf(S \ {x})

\* Faulty variant of ChildKeys, sorted downwards: what C7 is sensitive to
ChildKeysDescending(m) ==
    LET up == SortStrings(KeysOf(DOMAIN m)) IN [i \in DOMAIN up |-> up[Len(up) + 1 - i]]

\* TypeElement.ChildKeys: the keys of the child map, sorted (sort.Strings)
ChildKeys(m) == SortStrings(KeysOf(DOMAIN m))

\* Faulty variant of ChildByName, finding nothing: what C3 is sensitive to
ChildByNameNone(h, t, name) == 0

\* TypeElement.ChildByName: 0 is nil
ChildByName(h, t, name) ==
    LET m == ChildMap(h, t) IN IF name \in DOMAIN m THEN m[name] ELSE 0

RECURSIVE Copy(_, _)
RECURSIVE CopyChildren(_, _, _, _)
\* TypeElement.Copy: a new element (next ID, no Parent) with copies of the
\* children; Name, Type, TypeCategory, TypeRef, NativeDialect, Native and Error
\* are taken over, Nullable is not
Copy(S, t) ==
    LET src == S.heap[t]
        n == [ID |-> NextID(S), Name |-> src.Name, Nullable |-> FALSE,
              TypeCategory |-> src.TypeCategory, Type |-> src.Type,
              TypeRef |-> src.TypeRef, NativeDialect |-> src.NativeDialect,
              Native |-> src.Native, Error |-> src.Error,
              Parent |-> 0, Children |-> <<>>]
        S1 == [S EXCEPT !.heap = Append(S.heap, n), !.lastID = NextID(S),
                        !.ret = Len(S.heap) + 1]
        S2 == CopyChildren(S1, S1.ret, src.Children, 1)
    IN [S2 EXCEPT !.ret = S1.ret]

CopyChildren(S, n, children, i) ==
    IF i > Len(children) THEN S
    ELSE LET S1 == Copy(S, children[i])
         IN CopyChildren([S1 EXCEPT !.heap = AddChild(S1.heap, n, S1.ret)],
                         n, children, i + 1)

-----------------------------------------------------------------------------
(* The TypeRefs registry.                                                  *)

RECURSIVE addTypeRef(_, _, _)
RECURSIVE typeRefRecursion(_, _, _)
RECURSIVE typeRefChildren(_, _, _, _)
\* Reflector.addTypeRef (reg: the address of r.Schema.TypeRefs)
addTypeRef(S, reg, cur) ==
    LET ref == NativeDefault(S.heap[cur]).TypeRef
    IN IF ref = "" THEN S
       ELSE IF ChildByName(S.heap, reg, ref) # 0 THEN S
       ELSE IF S.heap[cur].Error = CyclicalReferenceErr THEN S
       ELSE LET S1 == Copy(S, cur)
                r == S1.ret
                S2 == [S1 EXCEPT !.heap[r].Name = ref,
                                 !.heap[r].TypeRef = "",
                                 !.heap[r].Native[NATIVE_DIALECT].TypeRef = ""]
                S3 == typeRefRecursion(S2, reg, r)
            IN [S3 EXCEPT !.heap = AddChild(S3.heap, reg, r)]

\* Reflector.typeRefRecursion
typeRefRecursion(S, reg, cur) ==
    IF NativeDefault(S.heap[cur]).TypeRef # ""
    THEN LET S1 == IF S.heap[cur].Error # CyclicalReferenceErr
                   THEN LET Sa == addTypeRef(S, reg, cur)
                        IN [Sa EXCEPT !.heap = RemoveAllChildren(Sa.heap, cur)]
                   ELSE S
         IN [S1 EXCEPT !.heap[cur].Error = ""]
    ELSE typeRefChildren(S, reg, S.heap[cur].Children, 1)

typeRefChildren(S, reg, children, i) ==
    IF i > Len(children) THEN S
    ELSE typeRefChildren(typeRefRecursion(S, reg, children[i]), reg, children, i + 1)

-----------------------------------------------------------------------------
(* The derivation engine. reflectTypeImpl and its helpers recurse; the     *)
(* model keeps the Go call stack explicitly. A frame is one activation:    *)
(*   enter   reflectTypeImpl called, nothing executed yet                  *)
(*   exit    reflectTypeImpl waiting for its dispatch to return, then      *)
(*           calling addTypeRef                                            *)
(*   fields  reflectTypeStructImpl iterating the fields of a struct        *)
(*   keys    reflectTypeStructImpl iterating the sorted keys of a map      *)
(*   list    reflectTypeListImpl iterating the elements of a list          *)
(*   check   reflectTypeListImpl after the reflection of one element       *)

Frame(op, elem, v, anc) ==
    [op |-> op, elem |-> elem, v |-> v, anc |-> anc, i |-> 1, cnt |-> 0,
     keys |-> <<>>, uniq |-> EmptyMap, kinds |-> EmptyMap, childs |-> <<>>]

NilSchema == [Root |-> 0, TypeRefs |-> 0]

\* fmt's %d and %q for the values that occur
Digits == "0123456789"
RECURSIVE Itoa(_)
Itoa(n) == IF n < 10 THEN SubSeq(Digits, n + 1, n + 1)
           ELSE Itoa(n \div 10) \o SubSeq(Digits, (n % 10) + 1, (n % 10) + 1)
Quote(s) == "\"" \o s \o "\""

\* the mapKey records of reflectTypeStructImpl and their order
MapKey(kv) == [Name |-> kv.key, ExportName |-> Capitalize(kv.key), Value |-> kv.val]
KeyLess(a, b) ==
    IF a.ExportName # b.ExportName THEN StrLess(a.ExportName, b.ExportName)
    ELSE StrLess(a.Name, b.Name)
RECURSIVE InsertKey(_, _)
InsertKey(x, s) ==
    IF s = <<>> THEN <<x>>
    ELSE IF KeyLess(Head(s), x) THEN <<Head(s)>> \o InsertKey(x, Tail(s))
    ELSE <<x>> \o s
\* Faulty variant of the sort, the keys left as MapKeys hands them out: what
\* C6 is sensitive to
SortKeysNone(s) == s

RECURSIVE SortKeys(_)
SortKeys(s) == IF s = <<>> THEN <<>> ELSE InsertKey(Head(s), SortKeys(Tail(s)))

\* Reflector.Reset / NewReflector: the id generator restarts and the schema
\* gets a new Root and a new TypeRefs root
ResetStore ==
    LET S0 == [heap |-> <<>>, lastID |-> 0, ancs |-> <<>>, ret |-> 0, aret |-> 0]
        S1 == NewRootElement(S0, "Root")
        S2 == NewRootElement(S1, "TypeRefs")
    IN [heap |-> S2.heap, lastID |-> S2.lastID,
        schema |-> [Root |-> S1.ret, TypeRefs |-> S2.ret]]

Top == stack[Len(stack)]
Below == SubSeq(stack, 1, Len(stack) - 1)

\* What one activation leaves behind: the store, the frames that replace the
\* top frame, and whether the engine panicked.
Step(S, frames, panic) == [S |-> S, frames |-> frames, panic |-> panic]

\* Faulty variant of reflectTypeListImpl, a list without elements left
\* without a child: what C12 is sensitive to
reflectTypeListImplNoPlaceholder(S, f, anc) ==
    Step(S, <<Frame("exit", f.elem, f.v, anc)>> \o
            (IF S.heap[f.elem].Error = "" /\ Val[f.v].elems # <<>>
             THEN <<Frame("list", f.elem, f.v, anc)>> ELSE <<>>), FALSE)

\* Reflector.reflectTypeListImpl, up to its first recursive call
reflectTypeListImpl(S, f, anc) ==
    LET e == f.elem
        v == Val[f.v]
        hasElements == /\ S.heap[e].Error = ""
                       /\ IF v.kind = "array" THEN Len(v.elems) # 0
                          ELSE ~(v.isNil \/ Len(v.elems) = 0)
        targetValue == IF S.heap[e].Error = "" THEN v.zero ELSE "nilv"
    IN IF v.kind \notin {"array", "slice"} THEN Step(S, <<>>, TRUE)
       ELSE IF hasElements
       THEN Step(S, <<Frame("exit", e, f.v, anc), Frame("list", e, f.v, anc)>>, FALSE)
       ELSE LET S1 == AncestorCopy(NewChild(S, e, ""), anc)
            IN Step(S1, <<Frame("exit", e, f.v, anc),
                          Frame("enter", S1.ret, targetValue, S1.aret)>>, FALSE)

\* Faulty variant of reflectTypeStructImpl, without the check for a struct
\* without fields and with the map checked for entries before its key type:
\* what C14 is sensitive to
reflectTypeStructImplEmptyFirst(S, f, anc, order) ==
    LET e == f.elem
        v == Val[f.v]
        exit == Frame("exit", e, f.v, anc)
    IN IF S.heap[e].Error # "" THEN Step(S, <<exit>>, FALSE)
       ELSE IF v.kind = "struct"
       THEN Step(S, <<exit, Frame("fields", e, f.v, anc)>>, FALSE)
       ELSE IF v.entries = {}
       THEN Step([S EXCEPT !.heap[e].Error = EmptyMapErr], <<exit>>, FALSE)
       ELSE IF v.keyKind # "string"
       THEN Step([S EXCEPT !.heap[e].Error = MapKeyTypeErr], <<exit>>, FALSE)
       ELSE IF v.keyNamed THEN Step(S, <<>>, TRUE)
       ELSE Step(S, <<exit, [Frame("keys", e, f.v, anc) EXCEPT
                               !.keys = SortKeys([i \in DOMAIN order |->
                                                     MapKey(order[i])])]>>, FALSE)

\* Reflector.reflectTypeStructImpl, up to its first loop iteration; order is
\* the order in which v.MapKeys() hands out the keys
reflectTypeStructImpl(S, f, anc, order) ==
    LET e == f.elem
        v == Val[f.v]
        exit == Frame("exit", e, f.v, anc)
    IN IF S.heap[e].Error # "" THEN Step(S, <<exit>>, FALSE)
       ELSE IF v.kind = "struct"
       THEN IF Len(v.fields) = 0
            THEN Step([S EXCEPT !.heap[e].Error = EmptyStructErr], <<exit>>, FALSE)
            ELSE Step(S, <<exit, Frame("fields", e, f.v, anc)>>, FALSE)
       ELSE IF v.kind = "map"
       THEN IF v.keyKind # "string"
            THEN Step([S EXCEPT !.heap[e].Error = MapKeyTypeErr,
                                !.heap[e].Native[NATIVE_DIALECT].Error =
                                    "map key type must be string not " \o Quote(v.keyKind)],
                      <<exit>>, FALSE)
            ELSE IF v.entries = {}
            THEN Step([S EXCEPT !.heap[e].Error = EmptyMapErr], <<exit>>, FALSE)
            \* k.Interface().(string): the assertion fails for a defined key type
            ELSE IF v.keyNamed THEN Step(S, <<>>, TRUE)
            ELSE Step(S, <<exit, [Frame("keys", e, f.v, anc) EXCEPT
                                    !.keys = SortKeys([i \in DOMAIN order |->
                                                          MapKey(order[i])])]>>, FALSE)
       ELSE Step(S, <<exit>>, FALSE)

\* Reflector.reflectTypeInterfaceImpl
reflectTypeInterfaceImpl(S, f, anc) ==
    LET e == f.elem
        v == Val[f.v]
    IN IF v.isNil
       THEN Step([S EXCEPT !.heap[e].Type = "invalid",
                           !.heap[e].Error = NilInterfaceErr],
                 <<Frame("exit", e, f.v, anc)>>, FALSE)
       ELSE LET S1 == AncestorCopy([S EXCEPT !.heap[e].Nullable = TRUE], anc)
            IN Step(S1, <<Frame("exit", e, f.v, anc),
                          Frame("enter", e, v.elem, S1.aret)>>, FALSE)

\* Reflector.reflectTypePointerImpl
reflectTypePointerImpl(S, f, anc) ==
    LET e == f.elem
        v == Val[f.v]
        targetValue == IF v.isNil THEN v.zero ELSE v.elem
    IN IF S.heap[e].Error = ""
       THEN LET S1 == AncestorCopy([S EXCEPT !.heap[e].Nullable = TRUE], anc)
            IN Step(S1, <<Frame("exit", e, f.v, anc),
                          Frame("enter", e, targetValue, S1.aret)>>, FALSE)
       ELSE Step(S, <<Frame("exit", e, f.v, anc)>>, FALSE)

\* Faulty variant of reflectTypeImpl, the check of the root type made before
\* the check for an unsupported kind: what C28 is sensitive to
reflectTypeImplRootFirst(S, f, order) ==
    LET e == f.elem
        v == Val[f.v]
        genericType == GenericTypeOf(v)
        S0 == [S EXCEPT !.heap[e].Type = genericType.slug,
                        !.heap[e].TypeCategory = genericType.cat]
        S1 == [S0 EXCEPT !.heap[e].Native[NATIVE_DIALECT].Type = v.kind]
        named == v.tname # v.kind
        S2 == IF named
              THEN [S1 EXCEPT !.heap[e].TypeRef = v.tname,
                              !.heap[e].Native[NATIVE_DIALECT].TypeRef = v.tname]
              ELSE S1
        anc == f.anc
        S3 == IF named THEN AncestorAdd(S2, anc, v.tname) ELSE S2
        exit == Frame("exit", e, f.v, anc)
    IN IF e = 0 THEN Step(S, <<>>, TRUE)
       ELSE IF S0.heap[e].Parent = 0 THEN Step(S0, <<>>, TRUE)
       ELSE IF /\ S0.heap[S0.heap[e].Parent].Type = GRoot.slug
               /\ genericType # GStruct
               /\ genericType.cat # "reference"
       THEN Step([S0 EXCEPT !.heap[e].Error = RootKindErr], <<>>, FALSE)
       ELSE IF genericType.cat = "invalid"
       THEN Step([S0 EXCEPT !.heap[e].Error = InvalidKindErr,
                            !.heap[e].Type = genericType.slug \o
                                (IF v.kind = "invalid" THEN ":nil" ELSE ":" \o v.kind)],
                 <<>>, FALSE)
       ELSE IF named /\ AncestorContains(S2, anc, v.tname)
       THEN Step([S2 EXCEPT !.heap[e].Error = CyclicalReferenceErr], <<>>, FALSE)
       ELSE IF genericType.cat = "basic" THEN Step(S3, <<exit>>, FALSE)
       ELSE IF genericType.cat = "known"
       THEN Step([S3 EXCEPT !.heap[e].TypeRef = "",
                            !.heap[e].Native[NATIVE_DIALECT].TypeRef = ""],
                 <<exit>>, FALSE)
       ELSE IF genericType = GList THEN reflectTypeListImpl(S3, f, anc)
       ELSE IF genericType = GStruct THEN reflectTypeStructImpl(S3, f, anc, order)
       ELSE IF genericType = GInterface THEN reflectTypeInterfaceImpl(S3, f, anc)
       ELSE IF genericType = GPointer THEN reflectTypePointerImpl(S3, f, anc)
       ELSE Step(S3, <<>>, TRUE)

\* Reflector.reflectTypeImpl, from its entry to its first call
reflectTypeImpl(S, f, order) ==
    LET e == f.elem
        v == Val[f.v]
        genericType == GenericTypeOf(v)
        S0 == [S EXCEPT !.heap[e].Type = genericType.slug,
                        !.heap[e].TypeCategory = genericType.cat]
        S1 == [S0 EXCEPT !.heap[e].Native[NATIVE_DIALECT].Type = v.kind]
        named == v.tname # v.kind
        S2 == IF named
              THEN [S1 EXCEPT !.heap[e].TypeRef = v.tname,
                              !.heap[e].Native[NATIVE_DIALECT].TypeRef = v.tname]
              ELSE S1
        anc == f.anc
        S3 == IF named THEN AncestorAdd(S2, anc, v.tname) ELSE S2
        exit == Frame("exit", e, f.v, anc)
    IN IF e = 0 THEN Step(S, <<>>, TRUE)
       ELSE IF genericType.cat = "invalid"
       THEN Step([S0 EXCEPT !.heap[e].Error = InvalidKindErr,
                            !.heap[e].Type = genericType.slug \o
                                (IF v.kind = "invalid" THEN ":nil" ELSE ":" \o v.kind)],
                 <<>>, FALSE)
       ELSE IF S0.heap[e].Parent = 0 THEN Step(S0, <<>>, TRUE)
       ELSE IF /\ S0.heap[S0.heap[e].Parent].Type = GRoot.slug
               /\ genericType # GStruct
               /\ genericType.cat # "reference"
       THEN Step([S0 EXCEPT !.heap[e].Error = RootKindErr], <<>>, FALSE)
       ELSE IF named /\ AncestorContains(S2, anc, v.tname)
       THEN Step([S2 EXCEPT !.heap[e].Error = CyclicalReferenceErr], <<>>, FALSE)
       ELSE IF genericType.cat = "basic" THEN Step(S3, <<exit>>, FALSE)
       ELSE IF genericType.cat = "known"
       THEN Step([S3 EXCEPT !.heap[e].TypeRef = "",
                            !.heap[e].Native[NATIVE_DIALECT].TypeRef = ""],
                 <<exit>>, FALSE)
       ELSE IF genericType = GList THEN reflectTypeListImpl(S3, f, anc)
       ELSE IF genericType = GStruct THEN reflectTypeStructImpl(S3, f, anc, order)
       ELSE IF genericType = GInterface THEN reflectTypeInterfaceImpl(S3, f, anc)
       ELSE IF genericType = GPointer THEN reflectTypePointerImpl(S3, f, anc)
       ELSE Step(S3, <<>>, TRUE)

-----------------------------------------------------------------------------
(* Rendering. A renderer is its dialect, its DeReference option and its     *)
(* current indent. A rendered line is kept with the element whose Pre       *)
(* produced it: [s |-> text, n |-> element].                                *)

Dialects == {"simple", "json", "openapi"}

Line(s, n) == [s |-> s, n |-> n]

\* TypeElement.GetNativeType(dialect): the element's settings as the dialect
\* sees them, the dialect's own entries taking precedence over the generic ones
GetNativeType(n, dialect) ==
    LET o == IF dialect \in DOMAIN n.Native THEN n.Native[dialect]
             ELSE NewNativeType(dialect)
    IN [Dialect |-> dialect,
        Name |-> IF o.Name # "" THEN o.Name ELSE n.Name,
        Type |-> IF o.Type # "" THEN o.Type ELSE n.Type,
        TypeRef |-> IF o.TypeRef # "" THEN o.TypeRef ELSE n.TypeRef,
        Include |-> o.Include,
        Error |-> IF o.Error # "" THEN o.Error ELSE n.Error]

\* Options.Prefix is "" for Simple and JSON, NewOpenAPIRenderer sets "  "
PrefixOf(dialect) == IF dialect = "openapi" THEN "  " ELSE ""

\* Renderer.Prefix
Prefix(dialect, indent) ==
    IF PrefixOf(dialect) = "" THEN "" ELSE Repeat(PrefixOf(dialect), indent)

\* Renderer.SetIndent: the indent after the call
SetIndent(indent, value) == value

RECURSIVE SimplePathKeepRef(_, _, _)
\* Faulty variant of SimpleRenderer.Path, the type_ref kept when
\* dereferencing: what C18 is sensitive to
SimplePathKeepRef(h, t, deref) ==
    IF h[t].Parent = 0 THEN <<h[t].Name>>
    ELSE LET n == h[t]
             ref == NativeDefault(n).TypeRef
             path == (IF n.Name # "" THEN n.Name \o ":" ELSE "")
                        \o (IF n.TypeCategory = "invalid" THEN n.Type
                            ELSE PathDefaultOfType(n.Type))
                        \o (IF ref # "" THEN ":" \o ref ELSE "")
         IN Append(SimplePathKeepRef(h, n.Parent, deref),
                   IF n.Error # "" THEN "!" \o path \o "!" ELSE path)

RECURSIVE SimplePath(_, _, _)
\* SimpleRenderer.Path
SimplePath(h, t, deref) ==
    IF h[t].Parent = 0 THEN <<h[t].Name>>
    ELSE LET n == h[t]
             namePart == IF n.Name # "" THEN n.Name \o ":" ELSE ""
             typePart == IF n.TypeCategory = "invalid" THEN n.Type
                         ELSE PathDefaultOfType(n.Type)
             ref == IF ~deref \/ n.Error = CyclicalReferenceErr
                    THEN NativeDefault(n).TypeRef ELSE ""
             refPart == IF ref # "" THEN ":" \o ref ELSE ""
             path == namePart \o typePart \o refPart
             wrapped == IF n.Error # "" THEN "!" \o path \o "!" ELSE path
             quoted == IF Contains(wrapped, ".") THEN Quote(wrapped) ELSE wrapped
         IN Append(SimplePath(h, n.Parent, deref), quoted)

\* SimpleRenderer.Pre: the lines and the indent it leaves
SimplePre(h, t, deref, indent) ==
    IF h[t].Type = GRoot.slug THEN [out |-> <<>>, indent |-> indent]
    ELSE LET out == Join(SimplePath(h, t, deref), ".")
         IN [out |-> <<IF h[t].Error # "" THEN out \o " ERROR:" \o h[t].Error ELSE out>>,
             indent |-> indent]

RECURSIVE JSONPath(_, _, _)
\* JSONRenderer.Path. An element without Parent that is no root makes the
\* recursion dereference nil; RenderType reaches elements through the
\* Children of a root only.
JSONPath(h, t, deref) ==
    IF t = 0 THEN <<"<nil>">>
    ELSE IF h[t].Type = GRoot.slug
    THEN IF h[t].Name = "Root" THEN <<"$">>
         ELSE IF h[t].Name = "TypeRefs" THEN <<"definitions">>
         ELSE <<h[t].Name>>
    ELSE LET n == h[t]
             jsonType == GetNativeType(n, "json")
             namePart == IF jsonType.Name # "" THEN jsonType.Name \o ":" ELSE ""
             typePart == IF n.TypeCategory = "invalid" THEN n.Type
                         ELSE PathDefaultOfType(jsonType.Type)
             ref == IF ~deref \/ n.Error = CyclicalReferenceErr
                    THEN jsonType.TypeRef ELSE ""
             refPart == IF ref # "" THEN ":" \o ref ELSE ""
             path == namePart \o typePart \o refPart
             once == IF n.Error # "" THEN "!" \o path \o "!" ELSE path
             twice == IF n.Error # "" THEN "!" \o once \o "!" ELSE once
         IN IF jsonType.Include = False THEN <<>>
            ELSE Append(JSONPath(h, n.Parent, deref), twice)

\* JSONRenderer.Pre
JSONPre(h, t, deref, indent) ==
    LET jsonType == GetNativeType(h[t], "json")
        path == JSONPath(h, t, deref)
        newPath == [i \in DOMAIN path |->
                       IF Contains(path[i], ".") THEN Quote(path[i]) ELSE path[i]]
        out == Join(newPath, ".")
    IN IF jsonType.Include = False \/ jsonType.Type = GRoot.slug
       THEN [out |-> <<>>, indent |-> indent]
       ELSE [out |-> <<IF h[t].Error # "" THEN out \o " ERROR:" \o h[t].Error ELSE out>>,
             indent |-> indent]

\* OpenAPIRenderer.Pre
OpenAPIPre(h, t, deref, indent) ==
    LET n == h[t]
        jsonType == GetNativeType(n, "json")
        nativeType == NativeDefault(n)
        isRoot == n.Type = GRoot.slug
        i0 == IF isRoot THEN SetIndent(indent, indent + 1) ELSE indent
        P(i) == Prefix("openapi", i)
        nameLines == IF jsonType.Name # "" THEN <<P(i0) \o jsonType.Name \o ":">> ELSE <<>>
        i1 == IF jsonType.Name # "" THEN SetIndent(i0, i0 + 1) ELSE i0
        opens == jsonType.TypeRef = "" /\ n.Type \in {GStruct.slug, GList.slug}
        typeLines ==
            IF jsonType.TypeRef # ""
            THEN <<P(i1) \o "$ref: '#/definitions/" \o jsonType.TypeRef \o "'">>
            ELSE IF n.Type = GStruct.slug
            THEN <<P(i1) \o "type: object", P(i1) \o "properties:">>
            ELSE IF n.Type = GList.slug
            THEN <<P(i1) \o "type: array", P(i1) \o "items:">>
            ELSE IF n.Type = GBoolean.slug THEN <<P(i1) \o "type: boolean">>
            ELSE IF n.Type = GInteger.slug
            THEN <<P(i1) \o "type: integer">> \o
                 (IF nativeType.Type \in {"int64", "uint64"}
                  THEN <<P(i1) \o "format: int64">> ELSE <<>>)
            ELSE IF n.Type = GFloat.slug
            THEN <<P(i1) \o "type: number">> \o
                 (IF nativeType.Type = "float64"
                  THEN <<P(i1) \o "format: double">> ELSE <<>>)
            ELSE IF n.Type = GString.slug THEN <<P(i1) \o "type: string">>
            ELSE IF n.Type = GDateTime.slug
            THEN <<P(i1) \o "type: string", P(i1) \o "format: date-time">>
            ELSE <<P(i1) \o "type: " \o n.Type>>
        i2 == IF opens THEN SetIndent(i1, i1 + 1) ELSE i1
        errLines == IF n.Error # "" THEN <<P(i2) \o "error: " \o n.Error>> ELSE <<>>
    IN IF jsonType.Include = False THEN [out |-> <<>>, indent |-> indent]
       ELSE IF isRoot /\ n.Name = "Root" THEN [out |-> <<"root:">>, indent |-> i0]
       ELSE IF isRoot /\ n.Name = "TypeRefs"
       THEN [out |-> <<"definitions:">>, indent |-> i0]
       ELSE [out |-> nameLines \o typeLines \o errLines, indent |-> i2]

\* Renderer.Pre
Pre(h, t, dialect, deref, indent) ==
    IF dialect = "simple" THEN SimplePre(h, t, deref, indent)
    ELSE IF dialect = "json" THEN JSONPre(h, t, deref, indent)
    ELSE OpenAPIPre(h, t, deref, indent)

\* Renderer.Post: no dialect emits anything after the children
Post(h, t, dialect, deref, indent) == [out |-> <<>>, indent |-> indent]

\* appendStrings: the non-empty strings of in are added to out
appendStrings(out, in) == out \o SelectSeq(in, LAMBDA l : l.s # "")

\* What a call of RenderType leaves behind: the lines, the renderer's indent,
\* and the record of the calls made, in call order. A call is recorded with
\* its element, the element whose loop made the call (0: RenderSchema), the
\* indent on entry (from), after Pre (pre) and on return (to).
Rendered(out, indent, visits) == [out |-> out, indent |-> indent, visits |-> visits]

\* the strings of a Pre or Post, each with the element that produced it
LinesOf(strings, t) == [i \in DOMAIN strings |-> Line(strings[i], t)]

RECURSIVE RenderType(_, _, _, _, _, _)
RECURSIVE RenderChildren(_, _, _, _, _, _, _, _, _)
\* RenderType up to the end of the loop: the lines of Pre, then the children
\* in the order of their names, unless the element is shown as a reference
RenderKids(h, t, dialect, deref, pre) ==
    IF ~deref /\ h[t].TypeRef # ""
    THEN Rendered(appendStrings(<<>>, LinesOf(pre.out, t)), pre.indent, <<>>)
    ELSE RenderChildren(h, t, ChildMap(h, t), ChildKeys(ChildMap(h, t)), 1,
                        dialect, deref, pre.indent,
                        Rendered(appendStrings(<<>>, LinesOf(pre.out, t)),
                                 pre.indent, <<>>))

\* Faulty variant of RenderType, without the two r.SetIndent(originalIndent):
\* what C9 is sensitive to
RenderTypeNoRestore(h, t, par, dialect, deref, indent) ==
    LET pre == Pre(h, t, dialect, deref, indent)
        kids == RenderKids(h, t, dialect, deref, pre)
    IN Rendered(kids.out, kids.indent,
                <<[node |-> t, par |-> par, from |-> indent,
                   pre |-> pre.indent, to |-> kids.indent]>> \o kids.visits)

\* Faulty variant of RenderPost, the indent not set back after Post: what
\* C29 is sensitive to
RenderPostNoRestore(h, t, par, dialect, deref, originalIndent, pre, kids) ==
    Rendered(kids.out, kids.indent,
             <<[node |-> t, par |-> par, from |-> originalIndent,
                pre |-> pre.indent, to |-> kids.indent]>> \o kids.visits)

\* RenderType after the loop: the indent is set back, Post runs, the indent
\* is set back again
RenderPost(h, t, par, dialect, deref, originalIndent, pre, kids) ==
    LET post == Post(h, t, dialect, deref, SetIndent(kids.indent, originalIndent))
        restored == SetIndent(post.indent, originalIndent)
    IN Rendered(appendStrings(kids.out, LinesOf(post.out, t)), restored,
                <<[node |-> t, par |-> par, from |-> originalIndent,
                   pre |-> pre.indent, to |-> restored]>> \o kids.visits)

\* RenderType once Pre has run
RenderPre(h, t, par, dialect, deref, originalIndent, pre) ==
    RenderPost(h, t, par, dialect, deref, originalIndent, pre,
               RenderKids(h, t, dialect, deref, pre))

\* renderer.RenderType
RenderType(h, t, par, dialect, deref, indent) ==
    RenderPre(h, t, par, dialect, deref, indent, Pre(h, t, dialect, deref, indent))

\* one round of the loop, given what rendering the child returned
RenderChild(acc, r) ==
    Rendered(appendStrings(acc.out, r.out), r.indent, acc.visits \o r.visits)

\* the loop of RenderType over the sorted child names
RenderChildren(h, t, typeRefMap, typeRefKeys, j, dialect, deref, childIndent, acc) ==
    IF j > Len(typeRefKeys) THEN acc
    ELSE RenderChildren(h, t, typeRefMap, typeRefKeys, j + 1, dialect, deref,
                        childIndent,
                        RenderChild(acc,
                                    RenderType(h, typeRefMap[typeRefKeys[j]], t, dialect,
                                               deref, SetIndent(acc.indent, childIndent))))

\* what RenderSchema returns: the renderer's settings, the lines of the
\* first and of the second part without empty strings, and the calls made
Result(dialect, deref, first, second) ==
    [dialect |-> dialect, deref |-> deref,
     out |-> SelectSeq(first.out, LAMBDA l : l.s # "")
                 \o SelectSeq(second.out, LAMBDA l : l.s # ""),
     visits |-> first.visits \o second.visits]

\* RenderSchema: the TypeRefs, when not dereferencing, at the given indent
RenderTypeRefs(h, sch, dialect, deref, indent) ==
    IF ~deref /\ Len(h[sch.TypeRefs].Children) > 0
    THEN RenderType(h, sch.TypeRefs, 0, dialect, deref, indent)
    ELSE Rendered(<<>>, indent, <<>>)

\* RenderSchema: the Root at the given indent
RenderRoot(h, sch, dialect, deref, indent) ==
    IF Len(h[sch.Root].Children) > 0
    THEN RenderType(h, sch.Root, 0, dialect, deref, indent)
    ELSE Rendered(<<>>, indent, <<>>)

\* RenderSchema once the TypeRefs are rendered
RenderAfterRefs(h, sch, dialect, deref, refs) ==
    Result(dialect, deref, refs, RenderRoot(h, sch, dialect, deref, refs.indent))

\* RenderSchemaRootFirst once the Root is rendered
RenderAfterRoot(h, sch, dialect, deref, root) ==
    Result(dialect, deref, root, RenderTypeRefs(h, sch, dialect, deref, root.indent))

\* Faulty variant of RenderSchema, Root rendered before TypeRefs: what C8 is
\* sensitive to
RenderSchemaRootFirst(h, sch, dialect, deref) ==
    RenderAfterRoot(h, sch, dialect, deref, RenderRoot(h, sch, dialect, deref, 0))

\* renderer.RenderSchema with a new renderer (Options.Indent is 0)
RenderSchema(h, sch, dialect, deref) ==
    RenderAfterRefs(h, sch, dialect, deref, RenderTypeRefs(h, sch, dialect, deref, 0))

NoRender == [dialect |-> "", deref |-> FALSE, out |-> <<>>, visits |-> <<>>]

\* the text of a rendering
Text(r) == [i \in DOMAIN r.out |-> r.out[i].s]

Modes == Dialects \X BOOLEAN

\* the text of the schema in every dialect and mode
RenderAll(h, sch) == [m \in Modes |-> Text(RenderSchema(h, sch, m[1], m[2]))]

NoPrev == [input |-> "", outs |-> [m \in Modes |-> <<>>]]

-----------------------------------------------------------------------------
(* Actions.                                                                *)

Store == [heap |-> heap, lastID |-> lastID, ancs |-> ancs, ret |-> 0, aret |-> 0]

\* a Reflector is either built by NewReflector or is the zero value, whose
\* Schema is nil until the first DeriveSchema
Init ==
    /\ \/ /\ heap = ResetStore.heap
          /\ lastID = ResetStore.lastID
          /\ schema = ResetStore.schema
       \/ /\ heap = <<>>
          /\ lastID = 0
          /\ schema = NilSchema
    /\ ancs = <<>>
    /\ pc = "idle"
    /\ stack = <<>>
    /\ input = ""
    /\ fresh = TRUE
    /\ rend = NoRender
    /\ prev = NoPrev

\* The frames of an activation replace the top frame. A call the goroutine
\* stack cannot hold ends the program (fatal error: stack overflow).
Continue(r) ==
    LET st == Below \o r.frames
    IN /\ heap' = r.S.heap
       /\ lastID' = r.S.lastID
       /\ ancs' = r.S.ancs
       /\ IF r.panic THEN pc' = "panic" /\ stack' = stack
          ELSE IF Len(st) > MaxStack THEN pc' = "overflow" /\ stack' = stack
          ELSE /\ stack' = st
               /\ pc' = IF st = <<>> THEN "done" ELSE "run"
       /\ UNCHANGED <<schema, input, fresh, rend, prev>>

\* Reflector.Reset; history is the value the history variable prev gets
ResetTo(history) ==
    /\ pc = "done"
    /\ heap' = ResetStore.heap
    /\ lastID' = ResetStore.lastID
    /\ ancs' = <<>>
    /\ schema' = ResetStore.schema
    /\ pc' = "idle"
    /\ fresh' = TRUE
    /\ rend' = NoRender
    /\ prev' = history
    /\ UNCHANGED <<stack, input>>

Reset == ResetTo(prev)

\* Reflector.DeriveSchema(x): a second call without Reset derives into the
\* same schema
Derive(x) ==
    LET R == IF schema = NilSchema THEN ResetStore
             ELSE [heap |-> heap, lastID |-> lastID, schema |-> schema]
        S1 == NewAncestorTypeRef(
                  NewChild([heap |-> R.heap, lastID |-> R.lastID, ancs |-> <<>>,
                            ret |-> 0, aret |-> 0], R.schema.Root, ""))
    IN /\ heap' = S1.heap
       /\ lastID' = S1.lastID
       /\ ancs' = S1.ancs
       /\ schema' = R.schema
       /\ stack' = <<Frame("enter", S1.ret, x, S1.aret)>>
       /\ input' = x
       /\ pc' = "run"
       /\ fresh' = (pc = "idle")
       /\ rend' = NoRender
       /\ UNCHANGED prev

DeriveSchema ==
    /\ pc \in {"idle", "done"}
    /\ pc = "done" => Len(heap) <= MaxReuseHeap
    /\ \E x \in Inputs : Derive(x)

\* reflectTypeImpl is entered
Enter ==
    /\ pc = "run"
    /\ Top.op = "enter"
    /\ \E order \in Perms(Val[Top.v].entries) :
          Continue(reflectTypeImpl(Store, Top, order))

\* reflectTypeImpl returns after its dispatch: addTypeRef
Exit ==
    /\ pc = "run"
    /\ Top.op = "exit"
    /\ Continue(Step(addTypeRef(Store, schema.TypeRefs, Top.elem), <<>>, FALSE))

\* reflectTypeStructImpl, one iteration of the loop over the fields
StructField ==
    /\ pc = "run"
    /\ Top.op = "fields"
    /\ LET f == Top
           v == Val[f.v]
       IN IF f.i > Len(v.fields)
          THEN Continue(Step(IF f.cnt = 0
                             THEN [Store EXCEPT !.heap[f.elem].Error = NoExportedFieldsErr]
                             ELSE Store, <<>>, FALSE))
          ELSE LET structField == v.fields[f.i]
                   S1 == NewChild(Store, f.elem, structField.name)
                   S1c == AncestorCopy(S1, f.anc)
                   nextElem == S1.ret
                   tag == structField.tag
                   json == [NewNativeType("json") EXCEPT
                               !.Include = IF tag.ignore THEN False ELSE True,
                               !.Name = tag.alias]
                   S2 == IF tag.set
                         THEN [S1c EXCEPT !.heap[nextElem].Native =
                                  [d \in {NATIVE_DIALECT, "json"} |->
                                      IF d = "json" THEN json
                                      ELSE S1.heap[nextElem].Native[NATIVE_DIALECT]]]
                         ELSE S1c
               IN IF structField.pkgPath # ""
                  THEN Continue(Step(Store, <<[f EXCEPT !.i = f.i + 1]>>, FALSE))
                  ELSE Continue(Step(S2,
                          <<[f EXCEPT !.i = f.i + 1, !.cnt = f.cnt + 1],
                            Frame("enter", nextElem, structField.val, S2.aret)>>,
                          FALSE))

\* reflectTypeStructImpl, one iteration of the loop over the sorted map keys
MapEntry ==
    /\ pc = "run"
    /\ Top.op = "keys"
    /\ LET f == Top
       IN IF f.i > Len(f.keys) THEN Continue(Step(Store, <<>>, FALSE))
          ELSE LET k == f.keys[f.i]
                   S1 == AncestorCopy(NewChild(Store, f.elem, k.ExportName), f.anc)
                   nextElem == S1.ret
                   S2 == IF k.ExportName # k.Name
                         THEN [S1 EXCEPT !.heap[nextElem].Native[NATIVE_DIALECT].Name = k.Name]
                         ELSE S1
                   S3 == IF MGet(f.uniq, k.ExportName) > 0
                         THEN [S2 EXCEPT
                                 !.heap[nextElem].Error = DuplicateMapKeyErr,
                                 !.heap[nextElem].Native[NATIVE_DIALECT].Error =
                                     "duplicate map key " \o Quote(k.ExportName)
                                        \o " (" \o Quote(k.Name) \o ")"]
                         ELSE S2
               IN Continue(Step(S3,
                      <<[f EXCEPT !.i = f.i + 1, !.uniq = MInc(f.uniq, k.ExportName)],
                        Frame("enter", nextElem, k.Value, S3.aret)>>, FALSE))

\* reflectTypeListImpl, the loop over the elements: a new child is reflected
\* for the next element; after the last one the first child is kept
ListElem ==
    /\ pc = "run"
    /\ Top.op = "list"
    /\ LET f == Top
           v == Val[f.v]
       IN IF f.i > Len(v.elems)
          THEN LET h1 == AddChild(heap, f.elem, f.childs[1])
                   RECURSIVE drop(_, _)
                   drop(h, j) == IF j > Len(f.childs) THEN h
                                 ELSE drop(RemoveChild(h, f.elem, f.childs[j]), j + 1)
               IN Continue(Step([Store EXCEPT !.heap = drop(h1, 2)], <<>>, FALSE))
          ELSE LET S1 == AncestorCopy(NewChild(Store, f.elem, ""), f.anc)
               IN Continue(Step(S1,
                      <<[f EXCEPT !.op = "check", !.childs = Append(f.childs, S1.ret)],
                        Frame("enter", S1.ret, v.elems[f.i], S1.aret)>>,
                      FALSE))

\* reflectTypeListImpl, after the reflection of an element: the kinds seen so
\* far are counted; order is the order in which the range over kindsFound
\* hands out its keys
ListCheck ==
    /\ pc = "run"
    /\ Top.op = "check"
    /\ LET f == Top
           nextElem == f.childs[Len(f.childs)]
           kindsFound == MInc(f.kinds, heap[nextElem].Type)
       IN IF Cardinality(DOMAIN kindsFound) > 1
          THEN \E order \in Perms(DOMAIN kindsFound) :
                 LET out == [j \in DOMAIN order |->
                                order[j] \o ":" \o Itoa(kindsFound[order[j]])]
                 IN Continue(Step([Store EXCEPT
                        !.heap[f.elem].Error = SliceMultiTypeErr,
                        !.heap[f.elem].Native[NATIVE_DIALECT].Error =
                            SliceMultiTypeErr \o ": " \o Join(out, ",")],
                      <<>>, FALSE))
          ELSE Continue(Step(Store,
                  <<[f EXCEPT !.op = "list", !.i = f.i + 1, !.kinds = kindsFound]>>,
                  FALSE))

\* Renderer.ProcessResult on the derived schema
Render ==
    /\ pc = "done"
    /\ \E dialect \in Dialects, deref \in BOOLEAN :
          rend' = RenderSchema(heap, schema, dialect, deref)
    /\ UNCHANGED <<heap, lastID, ancs, schema, pc, stack, input, fresh, prev>>

Next ==
    \/ Reset
    \/ DeriveSchema
    \/ Enter
    \/ Exit
    \/ StructField
    \/ MapEntry
    \/ ListElem
    \/ ListCheck
    \/ Render

Spec == Init /\ [][Next]_vars

-----------------------------------------------------------------------------
(* The same value derived twice, each time after NewReflector or Reset:    *)
(* Reset remembers in prev what the derivation it discards rendered to,    *)
(* and the next derivation is of the same value.                           *)

ResetRemember == ResetTo([input |-> input, outs |-> RenderAll(heap, schema)])

DeriveAgain ==
    /\ pc = "idle"
    /\ \E x \in Inputs : (prev = NoPrev \/ x = prev.input) /\ Derive(x)

NextTwice ==
    \/ ResetRemember
    \/ DeriveAgain
    \/ Enter
    \/ Exit
    \/ StructField
    \/ MapEntry
    \/ ListElem
    \/ ListCheck
    \/ Render

SpecTwice == Init /\ [][NextTwice]_vars

-----------------------------------------------------------------------------
(* Several Reflectors in one process. The id counter is a package variable *)
(* which every Reset sets back; the model follows one Reflector and keeps  *)
(* of the others what they share with it, the counter. The two roots the   *)
(* other Reflector makes get the ids 1 and 2 and belong to its own Schema. *)

\* NewReflector() or Reset() on another Reflector, between two calls on
\* this one
NewReflector ==
    /\ pc \in {"idle", "done"}
    /\ lastID' = ResetStore.lastID
    /\ UNCHANGED <<heap, ancs, schema, pc, stack, input, fresh, rend, prev>>

NextShared ==
    \/ Reset
    \/ DeriveSchema
    \/ Enter
    \/ Exit
    \/ StructField
    \/ MapEntry
    \/ ListElem
    \/ ListCheck
    \/ Render
    \/ NewReflector

SpecShared == Init /\ [][NextShared]_vars

-----------------------------------------------------------------------------
(* The tree operations of TypeElement called freely, on an element made by *)
(* NewTypeElement and on those made from it.                               *)

InitTree ==
    /\ LET S == NewTypeElement([heap |-> <<>>, lastID |-> 0, ancs |-> <<>>,
                                ret |-> 0, aret |-> 0], "")
       IN heap = S.heap /\ lastID = S.lastID
    /\ schema = NilSchema
    /\ ancs = <<>>
    /\ pc = "idle"
    /\ stack = <<>>
    /\ input = ""
    /\ fresh = TRUE
    /\ rend = NoRender
    /\ prev = NoPrev

RECURSIVE Finite(_, _, _)
\* no path of k elements leads down from t: with k the number of elements,
\* t lies on no cycle and has none below it
Finite(h, t, k) ==
    k > 0 /\ \A i \in DOMAIN h[t].Children : Finite(h, h[t].Children[i], k - 1)

RECURSIVE Size(_, _)
\* the number of elements Copy makes for t
Size(h, t) ==
    IF h[t].Children = <<>> THEN 1
    ELSE 1 + Size(h, h[t].Children[1])
           + Size([h EXCEPT ![t].Children = Tail(h[t].Children)], t) - 1

TreeStep(S) ==
    /\ heap' = S.heap
    /\ lastID' = S.lastID
    /\ UNCHANGED <<ancs, schema, pc, stack, input, fresh, rend, prev>>

CallNewChild ==
    /\ Len(heap) < MaxTreeHeap
    /\ \E t \in DOMAIN heap : TreeStep(NewChild(Store, t, ""))

CallAddChild ==
    \E t, c \in DOMAIN heap :
        TreeStep([Store EXCEPT !.heap = AddChild(heap, t, c)])

CallRemoveChild ==
    \E t, c \in DOMAIN heap :
        TreeStep([Store EXCEPT !.heap = RemoveChild(heap, t, c)])

CallRemoveAllChildren ==
    \E t \in DOMAIN heap :
        TreeStep([Store EXCEPT !.heap = RemoveAllChildren(heap, t)])

\* Copy of an element on or above a cycle of Children recurses until the
\* stack is exhausted and does not return
CallCopy ==
    \E t \in DOMAIN heap :
        /\ Finite(heap, t, Len(heap))
        /\ Len(heap) + Size(heap, t) <= MaxTreeHeap
        /\ TreeStep(Copy(Store, t))

NextTree ==
    \/ CallNewChild
    \/ CallAddChild
    \/ CallRemoveChild
    \/ CallRemoveAllChildren
    \/ CallCopy

SpecTree == InitTree /\ [][NextTree]_vars

-----------------------------------------------------------------------------
(* Properties.                                                             *)

RECURSIVE Subtree(_, _)
\* the elements reachable from t through Children
Subtree(h, t) ==
    {t} \cup UNION {Subtree(h, h[t].Children[i]) : i \in DOMAIN h[t].Children}

\* the elements of the schema: those under Root, those under TypeRefs
RootNodes == IF schema = NilSchema THEN {} ELSE Subtree(heap, schema.Root) \ {schema.Root}
RefNodes == IF schema = NilSchema THEN {}
            ELSE Subtree(heap, schema.TypeRefs) \ {schema.TypeRefs}

\* the entry of TypeRefs for a name (0: none)
Entry(name) == ChildByName(heap, schema.TypeRefs, name)

\* the name of the type of a value, if it is a defined (named) type
NamedOf(vn) ==
    IF Val[vn].tname \notin {"", Val[vn].kind} THEN {Val[vn].tname} ELSE {}

\* the running calls of reflectTypeImpl among frames, bottom to top
Calls(frames) == {i \in DOMAIN frames : frames[i].op = "exit"}

\* the named types met by the running calls: those of the strict ancestors
\* and every pointer or interface layer unwrapped on the way
CallPathNames(frames) == UNION {NamedOf(frames[i].v) : i \in Calls(frames)}

\* the named types the elements on the path to e ended up with (for each
\* ancestor the type of its innermost call), and the layers unwrapped for e
NodePathNames(frames, e) ==
    UNION {NamedOf(frames[i].v) :
             i \in {j \in Calls(frames) :
                      \/ frames[j].elem = e
                      \/ \A k \in Calls(frames) :
                            frames[k].elem = frames[j].elem => k <= j}}

\* a step in which reflectTypeImpl is entered
EnterStep == pc = "run" /\ Top.op = "enter"

\* the step marks its element as a cyclical reference
Marks == /\ heap[Top.elem].Error # CyclicalReferenceErr
         /\ heap'[Top.elem].Error = CyclicalReferenceErr

\* reflectTypeImpl is entered for a value of an unnamed type with the
\* ancestor names of a running call for the same value: the call repeats itself
RecurringCall ==
    /\ EnterStep
    /\ NamedOf(Top.v) = {}
    /\ \E i \in Calls(Below) : /\ Below[i].v = Top.v
                               /\ ancs[Below[i].anc] = ancs[Top.anc]

\* C1: DeriveSchema terminates for every input: no call of reflectTypeImpl
\* repeats a call that is still running (same value, same ancestor names),
\* and the recursion never exhausts the stack.
C1_Terminates == ~RecurringCall /\ pc # "overflow"

\* C2 (as amended): a node is marked cyclical reference exactly when its named
\* type was met by a running call on its path: as the type of a strict
\* ancestor or as a pointer/interface layer unwrapped on the way, of an
\* ancestor or of the node itself. Siblings do not see each other's names.
C2_CyclicalIffOnCallPath ==
    [][EnterStep => (Marks <=> NamedOf(Top.v) \cap CallPathNames(Below) # {})]_vars

\* C2 (as stated): a node is marked cyclical reference exactly when its named
\* type is the named type of a strict ancestor or an earlier unwrapped layer
\* of the same node.
C2_CyclicalIffOnNodePath ==
    [][EnterStep =>
         (Marks <=> NamedOf(Top.v) \cap NodePathNames(Below, Top.elem) # {})]_vars

\* C2 witness: a derivation has marked a node, and a named type used in two
\* sibling subtrees is expanded in both
C2_Witness ==
    /\ pc = "done"
    /\ input = "pct"
    /\ \E n \in RootNodes : heap[n].Error = CyclicalReferenceErr
    /\ \E a, b \in RootNodes :
          /\ a # b
          /\ heap[a].TypeRef = "A" /\ heap[b].TypeRef = "A"
          /\ heap[a].Children # <<>> /\ heap[b].Children # <<>>

\* C3: TypeRefs has at most one child per name.
C3_OneEntryPerName ==
    schema # NilSchema =>
        \A i, j \in DOMAIN heap[schema.TypeRefs].Children :
            heap[heap[schema.TypeRefs].Children[i]].Name =
                heap[heap[schema.TypeRefs].Children[j]].Name => i = j

\* C3 witness: a named type at two paths of the input, one entry
C3_Witness ==
    /\ pc = "done"
    /\ input = "two"
    /\ Cardinality({n \in RootNodes : heap[n].TypeRef = "Basic"}) = 2
    /\ Cardinality({i \in DOMAIN heap[schema.TypeRefs].Children :
                      heap[heap[schema.TypeRefs].Children[i]].Name = "Basic"}) = 1

\* C4: after DeriveSchema every non-empty type_ref of a node under Root or
\* inside a TypeRefs entry names an entry of TypeRefs.
C4_RefsResolve ==
    pc = "done" =>
        \A n \in RootNodes \cup RefNodes :
            heap[n].TypeRef # "" => Entry(heap[n].TypeRef) # 0

RECURSIVE Match(_, _)
\* the subtree of d, as dereference mode shows it, is what reference mode
\* shows at r once every reference is replaced by its TypeRefs entry;
\* cyclical-reference terminals are exempt
Match(d, r) ==
    \/ heap[d].Error = CyclicalReferenceErr
    \/ LET x == IF heap[r].TypeRef # "" THEN Entry(heap[r].TypeRef) ELSE r
       IN /\ x # 0
          /\ heap[x].Type = heap[d].Type
          /\ heap[x].Error = heap[d].Error
          /\ DOMAIN ChildMap(heap, x) = DOMAIN ChildMap(heap, d)
          /\ \A k \in DOMAIN ChildMap(heap, d) :
                Match(ChildMap(heap, d)[k], ChildMap(heap, x)[k])

\* C5: rendering Root in reference mode and inlining the TypeRefs entries
\* gives the node sequence of dereference mode.
C5_InlineEqualsDeref ==
    pc = "done" =>
        \A i \in DOMAIN heap[schema.Root].Children :
            Match(heap[schema.Root].Children[i], heap[schema.Root].Children[i])

\* C6: the same value derived twice, each time from a new schema, renders to
\* the same text in every dialect and mode.
C6_SameTextTwice ==
    (pc = "done" /\ fresh /\ prev.input = input) =>
        RenderAll(heap, schema) = prev.outs

\* C6 witness: the second derivation of a map, whose keys reflect hands out
\* in any order, is done
C6_Witness ==
    /\ pc = "done"
    /\ fresh
    /\ prev.input = input
    /\ input = "mdup"
    /\ \A m \in Modes : prev.outs[m] # <<>>

\* the calls of RenderType made by the loop of the call for element t
ChildCalls(t) == {i \in DOMAIN rend.visits : rend.visits[i].par = t}

\* C7: RenderType visits the children of every node in ascending name order.
C7_ChildrenAscending ==
    \A i, j \in DOMAIN rend.visits :
        (i < j /\ rend.visits[i].par # 0 /\ rend.visits[i].par = rend.visits[j].par)
            => StrLess(heap[rend.visits[i].node].Name, heap[rend.visits[j].node].Name)

\* C7 witness: children inserted as B, A, C come out as A, B, C
C7_Witness ==
    /\ input = "basic"
    /\ rend.dialect = "simple"
    /\ rend.deref
    /\ \E n \in RootNodes :
          /\ Len(heap[n].Children) = 3
          /\ heap[heap[n].Children[1]].Name = "B"
          /\ heap[heap[n].Children[2]].Name = "A"
          /\ heap[heap[n].Children[3]].Name = "C"
    /\ Text(rend) = <<"Root.{}", "Root.{}.A:integer", "Root.{}.B:string",
                      "Root.{}.C:boolean">>

RECURSIVE TopOf(_, _)
\* the root an element hangs under
TopOf(h, n) == IF h[n].Parent = 0 THEN n ELSE TopOf(h, h[n].Parent)

FromTypeRefs(l) == TopOf(heap, l.n) = schema.TypeRefs

RECURSIVE EntryOf(_, _)
\* the TypeRefs entry an element belongs to
EntryOf(h, n) ==
    IF h[n].Parent = 0 \/ h[h[n].Parent].Parent = 0 THEN n ELSE EntryOf(h, h[n].Parent)

\* C8: in reference mode the lines of the TypeRefs entries come first, entry
\* by entry in alphabetical order, then the lines of Root; in dereference mode
\* no line comes from TypeRefs; no line is empty.
C8_TypeRefsFirst ==
    /\ \A i \in DOMAIN rend.out : rend.out[i].s # ""
    /\ rend.deref => \A i \in DOMAIN rend.out : ~FromTypeRefs(rend.out[i])
    /\ ~rend.deref =>
          \A i, j \in DOMAIN rend.out :
              i < j => /\ FromTypeRefs(rend.out[j]) => FromTypeRefs(rend.out[i])
                       /\ (FromTypeRefs(rend.out[j]) /\ rend.out[j].n # schema.TypeRefs
                             /\ rend.out[i].n # schema.TypeRefs)
                          => ~StrLess(heap[EntryOf(heap, rend.out[j].n)].Name,
                                      heap[EntryOf(heap, rend.out[i].n)].Name)

\* C8 witness: a reference-mode rendering with lines of several entries and
\* of Root, and a dereference-mode rendering of the same kind of schema
C8_Witness ==
    /\ input = "pct"
    /\ rend.dialect = "simple"
    /\ ~rend.deref
    /\ Cardinality({EntryOf(heap, rend.out[i].n) :
                       i \in {j \in DOMAIN rend.out : FromTypeRefs(rend.out[j])}}) >= 3
    /\ \E i \in DOMAIN rend.out : ~FromTypeRefs(rend.out[i])

\* the call of RenderType for element t
CallOf(t) == CHOOSE i \in DOMAIN rend.visits : rend.visits[i].node = t

\* C9: RenderType leaves the indent as it found it, and every child of a node
\* starts at the indent the parent's Pre left.
C9_IndentRestored ==
    \A i \in DOMAIN rend.visits :
        /\ rend.visits[i].to = rend.visits[i].from
        /\ rend.visits[i].par # 0 =>
              rend.visits[i].from = rend.visits[CallOf(rend.visits[i].par)].pre

\* C9 witness: an OpenAPI rendering in which Pre raised the indent of a node
\* with several children, nested twice
C9_Witness ==
    /\ rend.dialect = "openapi"
    /\ \E i, j \in DOMAIN rend.visits :
          /\ rend.visits[j].par = rend.visits[i].node
          /\ rend.visits[i].pre > rend.visits[i].from
          /\ rend.visits[j].pre > rend.visits[j].from
          /\ Cardinality(ChildCalls(rend.visits[j].node)) >= 2

\* C10: DeriveSchema never aborts: no panic branch of the engine is reached,
\* whatever the input.
C10_NeverAborts == pc # "panic"

-----------------------------------------------------------------------------
(* The value at the top.                                                   *)

RECURSIVE Unwrapped(_, _)
\* the value left when the pointer and interface layers of a value are taken
\* off as the engine does it (a nil pointer stands for the zero value of its
\* target type, a nil interface is left as it is); n bounds the layers
Unwrapped(vn, n) ==
    LET v == Val[vn]
    IN IF n = 0 THEN vn
       ELSE IF v.kind = "ptr" THEN Unwrapped(IF v.isNil THEN v.zero ELSE v.elem, n - 1)
       ELSE IF v.kind = "interface" /\ ~v.isNil THEN Unwrapped(v.elem, n - 1)
       ELSE vn

\* the input, unwrapped, is of a supported kind other than struct and map
NotAStruct ==
    /\ input # ""
    /\ LET g == GenericTypeOf(Val[Unwrapped(input, Cardinality(DOMAIN Val))])
       IN g.cat \in {"basic", "known"} \/ g = GList

\* the only child of Root after a derivation from a new schema
TheChild == heap[schema.Root].Children[1]

\* the number of lines of the schema in a path dialect
Lines(dialect, deref) == Len(RenderSchema(heap, schema, dialect, deref).out)

-----------------------------------------------------------------------------
(* Lists.                                                                  *)

\* the call of reflectTypeImpl for a list is about to return
ListReturns == pc = "run" /\ Top.op = "exit" /\ Val[Top.v].kind \in {"array", "slice"}

\* the children of an element
Kids(e) == heap[e].Children

\* the type reflectTypeImpl gives the element made for a value: the generic
\* type of the value under its pointer and interface layers, "invalid" for a
\* nil interface, and the kind added for an unsupported kind
TypeFor(vn) ==
    LET u == Val[Unwrapped(vn, Cardinality(DOMAIN Val))]
        g == GenericTypeOf(u)
    IN IF u.kind = "interface" THEN "invalid"
       ELSE IF g.cat = "invalid"
       THEN g.slug \o ":" \o (IF u.kind = "invalid" THEN "nil" ELSE u.kind)
       ELSE g.slug

\* C12: a list without elements (array of length 0, nil slice, slice of
\* length 0) that carries no error has exactly one child when its derivation
\* returns, typed from the zero value of the element type.
C12_EmptyListPlaceholder ==
    (ListReturns /\ Val[Top.v].elems = <<>> /\ heap[Top.elem].Error = "") =>
        /\ Len(Kids(Top.elem)) = 1
        /\ heap[Kids(Top.elem)[1]].Type = TypeFor(Val[Top.v].zero)

\* a child of the struct at the top with the given name, a list whose one
\* child has the given type
ListField(name, type) ==
    \E n \in RootNodes :
        /\ heap[n].Name = name
        /\ heap[n].Type = GList.slug
        /\ Len(Kids(n)) = 1
        /\ heap[Kids(n)[1]].Type = type

\* C12 witness: an empty slice of int64, an empty slice of interface{}, an
\* array of length 0 and a nil slice of string were derived
C12_Witness ==
    /\ pc = "done"
    /\ input = "empties"
    /\ ListField("E", "integer")
    /\ ListField("I", "invalid")
    /\ ListField("Z", "string")
    /\ ListField("N", "string")

\* the index of the first element of a list whose type differs from that of
\* the first element (0: the elements agree)
FirstOdd(vn) ==
    LET els == Val[vn].elems
        odd == {i \in DOMAIN els : TypeFor(els[i]) # TypeFor(els[1])}
    IN IF odd = {} THEN 0 ELSE CHOOSE i \in odd : \A j \in odd : i <= j

\* the elements that name e as their parent
ChildrenByParent(e) == {n \in DOMAIN heap : heap[n].Parent = e}

\* C13 (as amended): when the derivation of a list with elements returns,
\* either the elements agree, and the list has one child, the node of its
\* first element, every other node detached; or two elements disagree, and
\* the list carries `slice contains multiple kinds` and keeps the nodes of
\* the elements probed up to the first one that disagrees (at least two),
\* no further element being derived.
C13_ListChildren ==
    (ListReturns /\ Val[Top.v].elems # <<>>
        /\ heap[Top.elem].Error \in {"", SliceMultiTypeErr}) =>
        IF FirstOdd(Top.v) = 0
        THEN /\ heap[Top.elem].Error = ""
             /\ Len(Kids(Top.elem)) = 1
             /\ heap[Kids(Top.elem)[1]].ID = heap[Top.elem].ID + 1
             /\ ChildrenByParent(Top.elem) = {Kids(Top.elem)[1]}
        ELSE /\ heap[Top.elem].Error = SliceMultiTypeErr
             /\ Len(Kids(Top.elem)) = FirstOdd(Top.v)
             /\ Cardinality(ChildrenByParent(Top.elem)) = FirstOdd(Top.v)

\* C13 (as stated): a list never ends its derivation with more than one child.
C13_AtMostOneChild == ListReturns => Len(Kids(Top.elem)) <= 1

\* C13 witness: a list of two int64 ended with one child, and a list of an
\* int64, a string and a bool with the error and the nodes of the first two
C13_Witness ==
    /\ pc = "done"
    /\ input = "lists"
    /\ ListField("L", "integer")
    /\ \E n \in RootNodes :
          /\ heap[n].Name = "M"
          /\ heap[n].Error = SliceMultiTypeErr
          /\ Len(Kids(n)) = 2
          /\ heap[Kids(n)[1]].Type = "integer"
          /\ heap[Kids(n)[2]].Type = "string"

-----------------------------------------------------------------------------
(* Structs and maps.                                                       *)

\* the call of reflectTypeImpl for a struct or a map is about to return, the
\* element not having carried an error when the call began
StructReturns ==
    /\ pc = "run"
    /\ Top.op = "exit"
    /\ Val[Top.v].kind \in {"struct", "map"}
    /\ GenericTypeOf(Val[Top.v]) = GStruct
    /\ heap[Top.elem].Error # DuplicateMapKeyErr

\* the error the shape of a struct or map calls for ("": none)
ShapeError(v) ==
    IF v.kind = "struct"
    THEN IF v.fields = <<>> THEN EmptyStructErr
         ELSE IF \A i \in DOMAIN v.fields : v.fields[i].pkgPath # ""
         THEN NoExportedFieldsErr
         ELSE ""
    ELSE IF v.keyKind # "string" THEN MapKeyTypeErr
         ELSE IF v.entries = {} THEN EmptyMapErr
         ELSE ""

\* C14: a struct without fields gets `empty struct not supported`, one
\* without exported fields `struct has no exported fields`, a map whose key
\* kind is not string `map key type must be string`, with or without
\* entries, a string-keyed map without entries `empty map not supported`;
\* the node has no children in any of these cases.
C14_ShapeErrors ==
    (StructReturns /\ ShapeError(Val[Top.v]) # "") =>
        /\ heap[Top.elem].Error = ShapeError(Val[Top.v])
        /\ Kids(Top.elem) = <<>>

\* a child of the struct at the top with the given name and error, and no
\* children
ErrorField(name, error) ==
    \E n \in RootNodes :
        /\ heap[n].Name = name
        /\ heap[n].Error = error
        /\ Kids(n) = <<>>

\* C14 witness: the four shapes, and an empty map with int64 keys, derived
\* as fields of one struct
C14_Witness ==
    /\ pc = "done"
    /\ input = "shapes"
    /\ ErrorField("A", EmptyStructErr)
    /\ ErrorField("B", NoExportedFieldsErr)
    /\ ErrorField("C", MapKeyTypeErr)
    /\ ErrorField("D", EmptyMapErr)
    /\ ErrorField("E", MapKeyTypeErr)

\* the keys of a map in the order of (capitalized key, key)
KeysInOrder(v) == SortKeys([i \in 1..Cardinality(v.entries) |->
                               MapKey((CHOOSE o \in Perms(v.entries) : TRUE)[i])])

\* C15: when the derivation of a string-keyed map returns, its children are
\* those of its keys in the order of (capitalized key, key), each named by
\* the capitalized key, and every child whose capitalized key is that of an
\* earlier child carries `duplicate map key`.
C15_DuplicateKeys ==
    (StructReturns /\ Val[Top.v].kind = "map" /\ ShapeError(Val[Top.v]) = "") =>
        LET keys == KeysInOrder(Val[Top.v])
            kids == Kids(Top.elem)
        IN /\ Len(kids) = Len(keys)
           /\ \A i \in DOMAIN kids :
                 /\ heap[kids[i]].Name = keys[i].ExportName
                 /\ (\E j \in 1..(i - 1) : keys[j].ExportName = keys[i].ExportName)
                       => heap[kids[i]].Error = DuplicateMapKeyErr

-----------------------------------------------------------------------------
(* Derivation runs.                                                        *)

\* the values a value holds directly
Inner(vn) ==
    LET v == Val[vn]
    IN ({v.elem, v.zero} \ {""})
          \cup {v.elems[i] : i \in DOMAIN v.elems}
          \cup {v.fields[i].val : i \in DOMAIN v.fields}
          \cup {kv.val : kv \in v.entries}

RECURSIVE Closure(_)
\* the values reachable from those of S
Closure(S) ==
    LET T == S \cup UNION {Inner(x) : x \in S}
    IN IF T = S THEN S ELSE Closure(T)

\* the defined types that occur in a value
TypesIn(vn) == UNION {NamedOf(y) : y \in Closure({vn})}

\* C16: when a DeriveSchema call has returned, Root has exactly one child
\* and every entry of TypeRefs is a type of that call's input, also when the
\* call was not the first one on the Reflector.
C16_OneRunPerSchema ==
    pc = "done" =>
        /\ Len(heap[schema.Root].Children) = 1
        /\ \A i \in DOMAIN heap[schema.TypeRefs].Children :
              heap[heap[schema.TypeRefs].Children[i]].Name \in TypesIn(input)

-----------------------------------------------------------------------------
(* Dialect output.                                                         *)

\* the json override of the element excludes it
Excluded(n) == GetNativeType(heap[n], "json").Include = False

RECURSIVE UnderExcluded(_)
\* the element or one of the elements above it is excluded
UnderExcluded(n) ==
    \/ Excluded(n)
    \/ heap[n].Parent # 0 /\ UnderExcluded(heap[n].Parent)

\* C17: in the JSON and OpenAPI dialects no line of the output comes from an
\* element excluded by its json override or from an element beneath one.
C17_ExcludedSubtreeSilent ==
    rend.dialect \in {"json", "openapi"} =>
        \A i \in DOMAIN rend.out : ~UnderExcluded(rend.out[i].n)

\* s ends with suf
EndsWith(s, suf) ==
    Len(s) >= Len(suf) /\ SubSeq(s, Len(s) - Len(suf) + 1, Len(s)) = suf

\* a line of a path dialect without what an error adds to it: the text
\* after the path and the `!` that closes the last segment
Bare(line, error) ==
    IF error = "" THEN line
    ELSE LET cut == Len(line) - Len(" ERROR:" \o error)
         IN IF cut >= 1 /\ SubSeq(line, cut, cut) = "!" THEN SubSeq(line, 1, cut - 1)
            ELSE SubSeq(line, 1, cut)

\* rend holds the output of the Simple dialect in dereference mode
SimpleDeref == rend.dialect = "simple" /\ rend.deref

\* C18: in dereference-mode Simple output the last path segment of a node's
\* line ends with `:<type_ref>` exactly when the node carries `cyclical
\* reference`; every other node is printed without the name of its type and
\* each of its children gets its own line.
C18_DerefKeepsCyclicalRef ==
    SimpleDeref =>
        \A i \in DOMAIN rend.out :
            LET n == rend.out[i].n
                bare == Bare(rend.out[i].s, heap[n].Error)
            IN IF heap[n].Error = CyclicalReferenceErr
               THEN heap[n].TypeRef # "" /\ EndsWith(bare, ":" \o heap[n].TypeRef)
               ELSE /\ ~EndsWith(bare, ":" \o heap[n].TypeRef)
                    /\ \A k \in DOMAIN ChildMap(heap, n) :
                          \E j \in DOMAIN rend.out : rend.out[j].n = ChildMap(heap, n)[k]

\* C18 witness: the cycle A -> B -> C -> A rendered, the closing edge with
\* its type name, a field of type A without it and with its fields
C18_Witness ==
    /\ SimpleDeref
    /\ input = "pct"
    /\ \E i, j \in DOMAIN rend.out :
          /\ rend.out[i].s = "Root.{}.CycleA:{}"
          /\ heap[rend.out[i].n].TypeRef = "A"
          /\ heap[rend.out[j].n].Parent = rend.out[i].n
    /\ \E i \in DOMAIN rend.out :
          /\ heap[rend.out[i].n].Error = CyclicalReferenceErr
          /\ EndsWith(rend.out[i].s, ":A! ERROR:" \o CyclicalReferenceErr)

\* the path of a line: the line without the text an error adds after it
PathOf(line, error) ==
    IF error # "" /\ EndsWith(line, " ERROR:" \o error)
    THEN SubSeq(line, 1, Len(line) - Len(" ERROR:" \o error))
    ELSE line

\* C19: in the JSON dialect the line of a node that carries an error ends
\* with ` ERROR:<error>`, and the last segment of its path is closed by
\* exactly one `!`, as in the Simple dialect.
C19_JSONErrorWrappedOnce ==
    rend.dialect = "json" =>
        \A i \in DOMAIN rend.out :
            LET error == heap[rend.out[i].n].Error
                path == PathOf(rend.out[i].s, error)
            IN error # "" =>
                  /\ EndsWith(rend.out[i].s, " ERROR:" \o error)
                  /\ EndsWith(path, "!")
                  /\ ~EndsWith(path, "!!")

(***************************************************************************)
(* Errors set before expansion.                                            *)
(***************************************************************************)
\* C20: a node that carries an error before its value is expanded, as the
\* child of a map flagged `duplicate map key`, has no children once the
\* call for it returns, whatever the kind of its value.
C20_ErroredBeforeExpansion ==
    (pc = "run" /\ Top.op = "exit" /\ heap[Top.elem].Error = DuplicateMapKeyErr)
        => Kids(Top.elem) = <<>>

(***************************************************************************)
(* The registry.                                                           *)
(***************************************************************************)
\* the nodes of TypeRefs that lie below an entry
BelowEntry == {n \in RefNodes : heap[n].Parent # schema.TypeRefs}

\* C21: in TypeRefs a node below an entry that carries a type_ref has no
\* children and no error, and no node of TypeRefs carries `cyclical
\* reference`.
C21_ReferencesPruned ==
    /\ \A n \in BelowEntry :
          heap[n].TypeRef # "" => Kids(n) = <<>> /\ heap[n].Error = ""
    /\ \A n \in RefNodes : heap[n].Error # CyclicalReferenceErr

\* C21 witness: the cycle A -> B -> C -> A derived; inside entry A the field
\* of type B is a bare reference while the field under Root has its fields,
\* and the closing edge is cyclical under Root and clean inside an entry
C21_Witness ==
    /\ pc = "done"
    /\ input = "pct"
    /\ \E n \in BelowEntry, m \in RootNodes :
          /\ heap[n].TypeRef = "B" /\ heap[m].TypeRef = "B"
          /\ Kids(n) = <<>> /\ Kids(m) # <<>>
    /\ \E n \in BelowEntry, m \in RootNodes :
          /\ heap[n].TypeRef = "A" /\ heap[m].TypeRef = "A"
          /\ heap[n].Error = "" /\ heap[m].Error = CyclicalReferenceErr

(***************************************************************************)
(* Type and category.                                                      *)
(***************************************************************************)
\* the slug of a Type: an unsupported kind has its kind name appended to
\* the slug `invalid`
SlugOf(type) ==
    IF Len(type) > 8 /\ SubSeq(type, 1, 8) = "invalid:" THEN "invalid" ELSE type

\* the category the taxonomy gives a slug ("" for a slug it does not hold)
CategoryOfSlug(slug) ==
    LET all == Append(MappedTypes, GRoot)
        hits == {i \in DOMAIN all : all[i].slug = slug}
    IN IF hits = {} THEN "" ELSE all[CHOOSE i \in hits : TRUE].cat

\* C22: in a derived schema the TypeCategory of every node is the category
\* the taxonomy assigns to its Type.
C22_CategoryOfType ==
    pc = "done" =>
        \A n \in RootNodes \cup RefNodes :
            heap[n].TypeCategory = CategoryOfSlug(SlugOf(heap[n].Type))

(***************************************************************************)
(* Node ids.                                                               *)
(***************************************************************************)
\* the nodes of the schema, its two roots included
SchemaNodes ==
    IF schema = NilSchema THEN {}
    ELSE Subtree(heap, schema.Root) \cup Subtree(heap, schema.TypeRefs)

\* C23: no two nodes of one Schema have the same ID, whatever NewReflector,
\* Reset and DeriveSchema calls were made, on this Reflector or on another.
C23_UniqueIDs ==
    \A a, b \in SchemaNodes : a # b => heap[a].ID # heap[b].ID

(***************************************************************************)
(* Parent and child links.                                                 *)
(***************************************************************************)
\* c is in the Children of p
ChildOf(c, p) == \E i \in DOMAIN heap[p].Children : heap[p].Children[i] = c

\* C24: after any calls of NewChild, AddChild, RemoveChild,
\* RemoveAllChildren and Copy a node is in the Children of p exactly when
\* its Parent is p, so in the Children of one node at most, and no Children
\* list holds a node twice.
C24_LinksAgree ==
    /\ \A p, c \in DOMAIN heap : ChildOf(c, p) <=> heap[c].Parent = p
    /\ \A p \in DOMAIN heap :
          \A i, j \in DOMAIN heap[p].Children :
              i # j => heap[p].Children[i] # heap[p].Children[j]

\* C24 witness: four elements; the first holds the fourth and the second,
\* in that order, which takes an AddChild of the second when it was a child
\* already; the third, a copy or a removed child, has no parent
C24_Witness ==
    /\ Len(heap) = 4
    /\ heap[1].Children = <<4, 2>>
    /\ heap[2].Parent = 1 /\ heap[4].Parent = 1
    /\ heap[3].Parent = 0 /\ heap[3].Children = <<>>

(***************************************************************************)
(* What rendering visits.                                                  *)
(***************************************************************************)
\* the elements RenderType was called for
Visited == {rend.visits[i].node : i \in DOMAIN rend.visits}

\* C25: rendering drops no node: RenderType is called, and Pre with it, for
\* every child of every element it visits unless the children are skipped
\* for a reference, also for children that share their name with a sibling.
C25_NoNodeDropped ==
    rend.dialect # "" =>
        \A t \in Visited :
            (rend.deref \/ heap[t].TypeRef = "") =>
                \A i \in DOMAIN heap[t].Children : heap[t].Children[i] \in Visited

(***************************************************************************)
(* Nullable.                                                               *)
(***************************************************************************)
\* the call that returns was made for a pointer or for an interface that
\* holds a value
ThroughReference ==
    /\ pc = "run" /\ Top.op = "exit"
    /\ \/ Val[Top.v].kind = "ptr"
       \/ Val[Top.v].kind = "interface" /\ ~Val[Top.v].isNil

\* the copies in TypeRefs of a field m of a value of a named type: the
\* children of the entry of that type with the name, type and type_ref of m
CopiesOf(m) ==
    LET p == heap[m].Parent
        e == IF p = 0 \/ heap[p].TypeRef = "" THEN 0 ELSE Entry(heap[p].TypeRef)
    IN IF e = 0 THEN {}
       ELSE {n \in RefNodes : /\ heap[n].Parent = e
                              /\ heap[n].Name = heap[m].Name
                              /\ heap[n].Type = heap[m].Type
                              /\ heap[n].TypeRef = heap[m].TypeRef}

\* a node reached through a pointer or an interface is nullable under Root
NullableUnderRoot == ThroughReference => heap[Top.elem].Nullable

\* the copies in TypeRefs of a nullable node are nullable
NullableInTypeRefs ==
    pc = "done" =>
        \A m \in RootNodes :
            heap[m].Nullable => \A n \in CopiesOf(m) : heap[n].Nullable

\* C26: every node reached through a pointer or a non-nil interface has
\* Nullable set, under Root and in its copies in TypeRefs.
C26_NullableKept == NullableUnderRoot /\ NullableInTypeRefs

(***************************************************************************)
(* Reference layers.                                                       *)
(***************************************************************************)
\* C27: pointer and interface layers leave no node of their own: in a
\* derived schema no node of Root or TypeRefs has the type `pointer` or
\* `interface`.
C27_NoReferenceNodes ==
    pc = "done" =>
        \A n \in RootNodes \cup RefNodes :
            heap[n].Type \notin {GPointer.slug, GInterface.slug}

(***************************************************************************)
(* Unsupported kinds.                                                      *)
(***************************************************************************)
\* the kinds without a generic type; "invalid" is the kind of
\* reflect.ValueOf(nil)
UnsupportedKinds ==
    {"invalid", "complex64", "complex128", "chan", "func", "unsafe.Pointer"}

\* reflectTypeImpl is about to run for a value of an unsupported kind
EntersUnsupported ==
    pc = "run" /\ Top.op = "enter" /\ Val[Top.v].kind \in UnsupportedKinds

Processed(dialect, deref, refs, root) ==
    [out |-> Result(dialect, deref, refs, root).out, indent |-> root.indent]

ProcessAfterRefs(dialect, deref, refs) ==
    Processed(dialect, deref, refs,
              RenderRoot(heap, schema, dialect, deref, refs.indent))

\* ProcessResult on the schema by a renderer whose indent is as given
ProcessResult(dialect, deref, indent) ==
    ProcessAfterRefs(dialect, deref,
                     RenderTypeRefs(heap, schema, dialect, deref, indent))

\* the indent the rendering recorded in rend left in the renderer: that on
\* return of the last call RenderSchema made
IndentLeft ==
    LET top == {i \in DOMAIN rend.visits : rend.visits[i].par = 0}
    IN IF top = {} THEN 0
       ELSE rend.visits[CHOOSE i \in top : \A k \in top : k <= i].to

\* a further call returned the lines recorded in rend and left the indent 0
SameAgain(second) ==
    /\ second.indent = 0
    /\ [i \in DOMAIN second.out |-> second.out[i].s]
          = [i \in DOMAIN rend.out |-> rend.out[i].s]

\* a step in which ProcessResult returns a rendering
Renders == rend' # rend /\ rend'.dialect # ""

Entries == {heap[schema.TypeRefs].Children[i] : i \in DOMAIN heap[schema.TypeRefs].Children}

\* C30: after DeriveSchema the name of every TypeRefs entry is the type_ref
\* of a node under Root or inside another entry.
C30_OnlyReferenced ==
    pc = "done" =>
        \A e \in Entries :
            \E n \in RootNodes \cup {r \in RefNodes : EntryOf(heap, r) # e} :
                heap[n].TypeRef = heap[e].Name

====
